---------------------------- MODULE Spec2Model ----------------------------
(* State-machine model of the CMSCure SDK core: credential/key manager,    *)
(* content cache, sync engine, real-time channel and change notification.  *)
(* The repository ships three implementations of the core; the model runs  *)
(* one of them per behaviour, selected by the variable platform:           *)
(*   "swift"    - src/unnamed/part_005 (iOS core)                          *)
(*   "kt"       - src/android/.../com/cmscure/sdk/CMSCureSDK.kt            *)
(*   "ktLegacy" - src/android/.../com/reactnativecmscuresdk/CMSCureSDK.kt  *)
EXTENDS Integers, Sequences, FiniteSets, Bags, TLC

(***************************************************************************)
(* Bounds of the exploration.                                              *)
(***************************************************************************)
\* sync requests that may be in flight at the same time
MaxInflight == 4
\* requests with a completion handler that may be in flight at the same time
MaxCallers == 1
\* launched coroutines that may be waiting to emit the ALL event
MaxLaunched == 1

(***************************************************************************)
(* Names and sample data.                                                  *)
(***************************************************************************)
Platforms == {"swift", "kt", "ktLegacy"}

None == "<none>"
\* an optional value is a set with at most one element
Nothing == {}
Some(x) == {x}
The(o) == CHOOSE x \in o : TRUE
NoFile == Nothing

COLORS_TAB == "__colors__"
IMAGES_TAB == "__images__"
ALL_SCREENS_UPDATED == "__ALL_SCREENS_UPDATED__"
ALL_SENTINEL == "__ALL__"

\* the constant COLORS_UPDATED of each implementation
COLORS_UPDATED(p) == IF p = "ktLegacy" THEN "__COLORS_UPDATED__" ELSE COLORS_TAB
\* the constant IMAGES_UPDATED of each implementation
IMAGES_UPDATED(p) == IF p = "ktLegacy" THEN "__IMAGES_UPDATED__" ELSE IMAGES_TAB

\* tabs the server lists in the authentication response
ServerTabs == {"home"}
\* data stores the server lists in the authentication response
ServerStores == {"deals"}
\* the lists of an authentication response: a project with content and an
\* empty project
FullListing == [tabs |-> ServerTabs, stores |-> ServerStores]
EmptyListing == [tabs |-> {}, stores |-> {}]
Locales == {"en", "fr"}
\* secrets: the one passed to configure and the one the server confirms
Secrets == {"s1", "s1-confirmed"}

EmptyMap == [x \in {} |-> None]

\* response bodies of POST /translations/{projectId}/{tab} for an ordinary tab
TabBodies ==
    { ("title" :> ("en" :> "Hello" @@ "fr" :> "Bonjour")),
      ("title" :> ("en" :> "Hi") @@ "subtitle" :> ("fr" :> "Bienvenue")) }
\* response bodies of the same endpoint for the colors tab
ColorBodies == { ("primary" :> ("color" :> "#112233")) }
\* response lists of GET /images/{projectId}, key -> url
ImageLists == { ("logo" :> "https://cdn/logo.png"), ("banner" :> "https://cdn/banner.png") }
\* response item lists of GET /store/{projectId}/{id}, item id -> fields
StoreLists == { ("item1" :> ("name" :> "Deal A")) }

ItemKeys == {"title", "subtitle", "primary", "logo", "banner"}

\* what a fetch can come back with
Outcomes == {"ok", "notFound", "httpError", "networkError", "unparseable", "emptyBody"}

VARIABLES
    platform,                  \* which implementation runs
    configuration,             \* Nothing or Some([projectSecret |-> s])
    authToken,                 \* None or the token
    symmetricKey,              \* Nothing or Some(derived key)
    knownProjectTabs,          \* the Known-Namespace Set (tabs)
    knownDataStoreIdentifiers, \* known data stores (kt only)
    cache,                     \* namespace -> key -> locale/field -> value
    dataStoreCache,            \* store id -> items (kt only)
    currentLanguage,           \* active locale
    cacheFile,                 \* NoFile or Some(persisted cache snapshot)
    storeFile,                 \* NoFile or Some(persisted data store cache), kt
    tabsFile,                  \* NoFile or Some(persisted tab list)
    configFile,                \* NoFile or Some(persisted auth token)
    authPending,               \* an authentication request is in flight
    confirmedSecret,           \* history: secret of the last successful auth
    inflight,                  \* bag of sync requests in progress
    socket,                    \* "none", "connecting", "connected", "awaitingAck"
    handshakeAcknowledged,     \* handshake flag (swift, ktLegacy)
    handshakeKeys,             \* history: keys of handshakes sent since auth
    connectScheduled,          \* swift: the delayed block of connectSocket is pending
    listeningStopped,          \* history: stopListening ran, no startListening since
    buffer,                    \* kotlin SharedFlow buffer (undelivered events)
    pendingAllEmits,           \* launched coroutines that will emit ALL
    notified,                  \* swift: events the last step posted to the handlers
    writing,                   \* Nothing or Some(the write that holds the cache lock)
    reader,                    \* a thread of the application that reads the cache
    diskWriteFailed,           \* history: a write of a snapshot file has failed
    taken                      \* subscribers that have taken the oldest buffered event

vars == <<platform, configuration, authToken, symmetricKey,
          knownProjectTabs, knownDataStoreIdentifiers, cache, dataStoreCache,
          currentLanguage, cacheFile, storeFile, tabsFile, configFile, authPending, confirmedSecret,
          inflight, socket, handshakeAcknowledged, handshakeKeys, connectScheduled,
          listeningStopped,
          buffer, pendingAllEmits, notified, writing, reader, diskWriteFailed,
          taken>>

lockVars == <<writing, reader>>

(***************************************************************************)
(* Pure helpers.                                                           *)
(***************************************************************************)
\* SHA-256 of the secret used as AES key: injective, so a key is the
\* secret it was hashed from, tagged
DeriveKey(secret) == <<"sha256", secret>>

\* cache[tab]?.get(key)?.get(field)
Lookup(c, tab, key, field) ==
    IF tab \in DOMAIN c
    THEN IF key \in DOMAIN c[tab]
         THEN IF field \in DOMAIN c[tab][key] THEN c[tab][key][field] ELSE None
         ELSE None
    ELSE None

(***************************************************************************)
(* Read accessors.                                                         *)
(***************************************************************************)
\* a reader that falls back to the key itself when nothing is cached
translation_keyFallback(key, tab) ==
    LET v == Lookup(cache, tab, key, currentLanguage)
    IN  IF v = None THEN key ELSE v

\* a read that always surfaces the default locale
translation_defaultLocale(key, tab) ==
    LET v == Lookup(cache, tab, key, "en")
    IN  IF v = None THEN "" ELSE v

translation(key, tab) ==
    LET v == Lookup(cache, tab, key, currentLanguage)
    IN  IF v = None THEN "" ELSE v

colorValue(key) == Lookup(cache, COLORS_TAB, key, "color")

imageURL(key) == Lookup(cache, IMAGES_TAB, key, "url")

getStoreItems(id) ==
    IF id \in DOMAIN dataStoreCache THEN dataStoreCache[id] ELSE EmptyMap

(***************************************************************************)
(* Startup: load of the persisted snapshots.                               *)
(***************************************************************************)
\* a snapshot file: the JSON text of a cache, or bytes that do not decode
Snapshot(c) == [valid |-> TRUE, content |-> c]
Malformed == [valid |-> FALSE, content |-> EmptyMap]

\* a loader that ignores the file
loadCacheFromDisk_ignore(file) == EmptyMap

\* the cache is left empty when the file is missing or does not decode
loadCacheFromDisk(file) ==
    IF file = NoFile \/ ~The(file).valid THEN EmptyMap ELSE The(file).content

\* the cache file after the load: swift and ktLegacy remove a file that
\* does not decode, kt logs the error and leaves it
cacheFileAfterLoad(p, file) ==
    IF file # NoFile /\ ~The(file).valid /\ p # "kt" THEN NoFile ELSE file

\* swift only reaches loadOfflineTabListFromDisk when the cache file exists
loadTabsFromDisk(p, cfile, tfile) ==
    IF tfile = NoFile THEN {}
    ELSE IF p = "swift" /\ cfile = NoFile THEN {}
    ELSE The(tfile)

Init ==
    /\ platform \in Platforms
    /\ cacheFile = NoFile
    /\ storeFile = NoFile
    /\ tabsFile = NoFile
    /\ configFile = NoFile
    /\ diskWriteFailed = FALSE
    /\ taken = {}
    /\ cache = loadCacheFromDisk(cacheFile)
    /\ knownProjectTabs = loadTabsFromDisk(platform, cacheFile, tabsFile)
    /\ knownDataStoreIdentifiers = {}
    /\ dataStoreCache = EmptyMap
    /\ configuration = Nothing
    /\ authToken = None
    /\ symmetricKey = Nothing
    /\ currentLanguage = "en"
    /\ authPending = FALSE
    /\ confirmedSecret = None
    /\ inflight = EmptyBag
    /\ socket = "none"
    /\ handshakeAcknowledged = FALSE
    /\ handshakeKeys = {}
    /\ connectScheduled = FALSE
    /\ listeningStopped = FALSE
    /\ buffer = <<>>
    /\ pendingAllEmits = 0
    /\ notified = <<>>
    /\ writing = Nothing
    /\ reader = [phase |-> "idle", tab |-> "", key |-> "", waited |-> FALSE,
                 before |-> "", after |-> "", value |-> ""]


(***************************************************************************)
(* Applying a fetched response to the in-memory cache.                     *)
(***************************************************************************)
Namespace(c, name) == IF name \in DOMAIN c THEN c[name] ELSE EmptyMap

Put(c, name, content) == [n \in DOMAIN c \cup {name} |-> IF n = name THEN content ELSE c[n]]

\* swift: newCacheDataForScreen = cache[screenName] ?? [:], then one
\* assignment per response item, then cache[screenName] = newCacheDataForScreen
syncTranslationsApply_swift(c, screenName, keysArray) ==
    LET existing == Namespace(c, screenName)
        newCacheDataForScreen ==
            [k \in DOMAIN existing \cup DOMAIN keysArray |->
                IF k \in DOMAIN keysArray THEN keysArray[k] ELSE existing[k]]
    IN  Put(c, screenName, newCacheDataForScreen)

\* kt: screenCache = cache.getOrPut(screenName), screenCache[item.key] = item.values
syncTranslationsApply_kt(c, screenName, keys) ==
    LET screenCache == Namespace(c, screenName)
    IN  Put(c, screenName,
            [k \in DOMAIN screenCache \cup DOMAIN keys |->
                IF k \in DOMAIN keys THEN keys[k] ELSE screenCache[k]])

\* ktLegacy: screenCache = cache.getOrPut(name); per item
\* keyData = screenCache.getOrPut(key); keyData.clear(); keyData.putAll(values)
syncTranslationsApply_ktLegacy(c, effectiveScreenName, keys) ==
    LET screenCache == Namespace(c, effectiveScreenName)
        keyData(k) == IF k \in DOMAIN screenCache THEN screenCache[k] ELSE EmptyMap
        cleared(k) == [f \in {} |-> keyData(k)[f]]
        putAll(k) == [f \in DOMAIN cleared(k) \cup DOMAIN keys[k] |->
                        IF f \in DOMAIN keys[k] THEN keys[k][f] ELSE cleared(k)[f]]
    IN  Put(c, effectiveScreenName,
            [k \in DOMAIN screenCache \cup DOMAIN keys |->
                IF k \in DOMAIN keys THEN putAll(k) ELSE screenCache[k]])

\* a writer that replaces the namespace by the response
syncTranslationsApply_replace(p, c, name, keys) == Put(c, name, keys)

\* a writer that keeps the entry of a key that is already cached
syncTranslationsApply_keepExisting(p, c, name, keys) ==
    LET existing == Namespace(c, name)
    IN  Put(c, name, [k \in DOMAIN existing \cup DOMAIN keys |->
                        IF k \in DOMAIN existing THEN existing[k] ELSE keys[k]])

\* a writer that takes the response for a list of changes: a key that is
\* cached is dropped, a key that is not is added
syncTranslationsApply_toggle(p, c, name, keys) ==
    LET existing == Namespace(c, name)
    IN  Put(c, name, [k \in (DOMAIN existing \ DOMAIN keys) \cup (DOMAIN keys \ DOMAIN existing) |->
                        IF k \in DOMAIN existing THEN existing[k] ELSE keys[k]])

syncTranslationsApply(p, c, name, keys) ==
    CASE p = "swift" -> syncTranslationsApply_swift(c, name, keys)
      [] p = "kt" -> syncTranslationsApply_kt(c, name, keys)
      [] p = "ktLegacy" -> syncTranslationsApply_ktLegacy(c, name, keys)

\* swift and ktLegacy: a new image map replaces cache["__images__"]
syncImagesApply_replace(c, imageAssets) ==
    Put(c, IMAGES_TAB, [k \in DOMAIN imageAssets |-> ("url" :> imageAssets[k])])

\* kt: imageCache = cache.getOrPut(IMAGES_UPDATED); imageCache[asset.key] = {url}
syncImagesApply_kt(c, imageAssets) ==
    LET imageCache == Namespace(c, IMAGES_TAB)
    IN  Put(c, IMAGES_TAB,
            [k \in DOMAIN imageCache \cup DOMAIN imageAssets |->
                IF k \in DOMAIN imageAssets THEN ("url" :> imageAssets[k])
                ELSE imageCache[k]])

syncImagesApply(p, c, imageAssets) ==
    IF p = "kt" THEN syncImagesApply_kt(c, imageAssets)
    ELSE syncImagesApply_replace(c, imageAssets)

(***************************************************************************)
(* Interpretation of the HTTP exchange.                                    *)
(***************************************************************************)
\* swift handleNetworkResponse + the parsing that follows it in
\* syncTranslations: "apply", "trueNoData" (completion(true) without
\* touching the cache) or "fail"
translationsResult_swift(outcome) ==
    CASE outcome = "ok" -> "apply"
      [] outcome \in {"notFound", "emptyBody"} -> "trueNoData"
      [] OTHER -> "fail"

\* swift syncImages: a 404 yields empty Data, which does not decode
imagesResult_swift(outcome) == IF outcome = "ok" THEN "apply" ELSE "fail"

\* an interpretation that takes an HTTP error status for an empty success
fetchResult_lenient(outcome) ==
    CASE outcome = "ok" -> "apply"
      [] outcome = "httpError" -> "trueNoData"
      [] OTHER -> "fail"

\* kotlin (Retrofit suspend call): any non-2xx status raises HttpException,
\* a network error or a body Gson cannot read raises, all caught: fail
fetchResult_kotlin(outcome) == IF outcome = "ok" THEN "apply" ELSE "fail"

fetchResult(p, kind, outcome) ==
    CASE p = "swift" /\ kind = "translations" -> translationsResult_swift(outcome)
      [] p = "swift" /\ kind # "translations" -> imagesResult_swift(outcome)
      [] OTHER -> fetchResult_kotlin(outcome)


(***************************************************************************)
(* Change notification bus.                                                *)
(***************************************************************************)
\* MutableSharedFlow(replay = 0, extraBufferCapacity = 1)
extraBufferCapacity == 1

\* kotlin tryEmit with the bridge collector attached: the event is taken if
\* the buffer has room and refused (lost) otherwise
tryEmit(buf, event) == IF Len(buf) < extraBufferCapacity THEN Append(buf, event) ELSE buf

\* kotlin: the shared flow after the change event of one step is offered
\* (swift posts synchronously to its handlers and buffers nothing)
Publish(p, buf, event) == IF p = "swift" THEN buf ELSE tryEmit(buf, event)

\* swift: notifyUpdateHandlers / NotificationCenter post within the step
Notify(p, event) == IF p = "swift" THEN <<event>> ELSE <<>>

\* the event a sync of a namespace publishes
ChangeEvent(p, name) ==
    CASE name = COLORS_TAB -> COLORS_UPDATED(p)
      [] name = IMAGES_TAB -> IMAGES_UPDATED(p)
      [] OTHER -> name

(***************************************************************************)
(* Sync engine: starting a fetch.                                          *)
(***************************************************************************)
\* sync(screenName): the images constant goes to syncImages, the rest to
\* syncTranslations
syncKind(p, screenName) == IF screenName = IMAGES_UPDATED(p) THEN "images" ELSE "translations"

\* the namespace the fetch is applied to (ktLegacy maps the colors event
\* name to the colors tab)
effectiveScreenName(p, screenName) ==
    CASE screenName = IMAGES_UPDATED(p) -> IMAGES_TAB
      [] p = "ktLegacy" /\ screenName = COLORS_UPDATED(p) -> COLORS_TAB
      [] OTHER -> screenName

\* the credentials the guards of the sync engine read
Credentials ==
    [configuration |-> configuration, authToken |-> authToken, symmetricKey |-> symmetricKey]

\* the early returns of syncTranslations / syncImages / syncStore
syncGuard(p, kind, cr) ==
    CASE p = "swift" /\ kind = "translations" ->
            cr.configuration # Nothing /\ cr.symmetricKey # Nothing
      [] p = "ktLegacy" /\ kind = "translations" ->
            cr.configuration # Nothing /\ cr.authToken # None /\ cr.symmetricKey # Nothing
      [] OTHER -> cr.configuration # Nothing

\* a sync request: stage "fetching" until the response arrives, "completing"
\* when the block posted to the main thread is pending.
\* result is how the request ended: "guard" (early return), "apply" (content
\* written), "trueNoData" or "fail"; cb tells whether a completion was passed
Request(name, kind, passed, cb) ==
    [name |-> name, kind |-> kind,
     stage |-> IF passed THEN "fetching" ELSE "completing",
     result |-> IF passed THEN "pending" ELSE "guard",
     cb |-> cb]

\* the value the completion of request r is invoked with
success(r) == r.result \in {"apply", "trueNoData"}

syncRequest(p, cr, screenName, cb) ==
    LET kind == syncKind(p, screenName)
    IN  Request(effectiveScreenName(p, screenName), kind, syncGuard(p, kind, cr), cb)

syncStoreRequest(p, cr, apiIdentifier, cb) ==
    Request(apiIdentifier, "store", syncGuard(p, "store", cr), cb)

RECURSIVE SeqOfSet(_)
SeqOfSet(S) ==
    IF S = {} THEN <<>>
    ELSE LET x == CHOOSE y \in S : TRUE IN <<x>> \o SeqOfSet(S \ {x})

RECURSIVE SeqToBag(_)
SeqToBag(seq) ==
    IF seq = <<>> THEN EmptyBag ELSE SetToBag({Head(seq)}) (+) SeqToBag(Tail(seq))

\* a request with nothing left to run: no completion to call and (swift)
\* no handler to notify, or (kt) the completion of a refused call, which
\* runs before sync returns
Settled(p, r) ==
    /\ r.stage = "completing"
    /\ \/ ~r.cb /\ ~(p = "swift" /\ r.result = "apply")
       \/ p = "kt" /\ r.result = "guard"

\* the requests that stay in progress
Tracked(p, reqs) == SelectSeq(reqs, LAMBDA r : ~Settled(p, r))

(***************************************************************************)
(* syncIfOutdated.                                                         *)
(***************************************************************************)
\* names with the prefix "__"
StartsWithUnderscores(n) ==
    n \in {COLORS_TAB, IMAGES_TAB, "__COLORS_UPDATED__", "__IMAGES_UPDATED__", ALL_SENTINEL, "__all__"}

\* swift skips the pass without configuration or key
syncIfOutdatedRuns(p, cr) ==
    p # "swift" \/ (cr.configuration # Nothing /\ cr.symmetricKey # Nothing)

\* swift: the cache keys and known tabs that do not start with "__", then
\* colors and images; kotlin: the known tabs, then colors and images
syncIfOutdatedTargets(p, cr, c, known) ==
    CASE p = "swift" ->
            IF syncIfOutdatedRuns(p, cr)
            THEN SeqOfSet({n \in DOMAIN c \cup known : ~StartsWithUnderscores(n)})
                     \o <<COLORS_TAB, IMAGES_TAB>>
            ELSE <<>>
      [] OTHER -> SeqOfSet(known) \o <<COLORS_UPDATED(p), IMAGES_UPDATED(p)>>

\* a pass that leaves the data stores out
syncIfOutdatedStores_none(p, stores) == <<>>

syncIfOutdatedStores(p, stores) == IF p = "kt" THEN SeqOfSet(stores) ELSE <<>>

syncIfOutdatedRequests(p, cr, c, known, stores) ==
    LET targets == syncIfOutdatedTargets(p, cr, c, known)
        ids == syncIfOutdatedStores(p, stores)
    IN  [i \in 1..Len(targets) |-> syncRequest(p, cr, targets[i], FALSE)]
        \o [i \in 1..Len(ids) |-> syncStoreRequest(p, cr, ids[i], FALSE)]

\* kotlin ends the pass with coroutineScope.launch { tryEmit(ALL_SCREENS_UPDATED) }
syncIfOutdatedEmits(p) == IF p = "swift" THEN 0 ELSE 1

(***************************************************************************)
(* Actions of the sync engine.                                             *)
(***************************************************************************)
credVars == <<configuration, authToken, symmetricKey, authPending, confirmedSecret, configFile>>
socketVars == <<socket, handshakeAcknowledged, handshakeKeys, connectScheduled,
                listeningStopped>>
contentVars == <<cache, dataStoreCache, cacheFile, storeFile>>
tabVars == <<knownProjectTabs, knownDataStoreIdentifiers, tabsFile>>

\* names the application passes to sync(): a listed tab, a tab the server
\* did not list, and the colors and images constants
SyncArgs(p) == ServerTabs \cup {COLORS_UPDATED(p)}

\* request old has become new
Replace(bag, old, new) ==
    IF Settled(platform, new) THEN bag (-) SetToBag({old})
    ELSE (bag (-) SetToBag({old})) (+) SetToBag({new})

\* requests in flight that hold a completion handler
Callers(bag) == BagCardinality([r \in {x \in BagToSet(bag) : x.cb} |-> bag[r]])

\* the requests started join the ones in progress, within the bounds
Start(started) ==
    /\ BagCardinality(inflight) + Len(started) <= MaxInflight
    /\ Callers(inflight) + Len(SelectSeq(started, LAMBDA r : r.cb)) <= MaxCallers
    /\ inflight' = inflight (+) SeqToBag(started)

\* one syncIfOutdated pass run with credentials cr over cache c and the known
\* tabs and stores: its requests join the ones in progress
StartPass(cr, c, known, stores) ==
    LET started == Tracked(platform, syncIfOutdatedRequests(platform, cr, c, known, stores))
    IN  /\ Start(started)
        /\ pendingAllEmits + syncIfOutdatedEmits(platform) <= MaxLaunched
        /\ pendingAllEmits' = pendingAllEmits + syncIfOutdatedEmits(platform)

\* the application calls sync(screenName, completion); kt runs the
\* completion of a refused call before returning
Sync(screenName) ==
    /\ Start(Tracked(platform, <<syncRequest(platform, Credentials, screenName, TRUE)>>))
    /\ notified' = <<>>
    /\ UNCHANGED <<platform, diskWriteFailed, taken, lockVars, credVars, socketVars, contentVars, tabVars,
                   currentLanguage, buffer, pendingAllEmits>>

\* the application calls syncStore(apiIdentifier, completion) (kt)
SyncStore(apiIdentifier) ==
    /\ platform = "kt"
    /\ Start(Tracked(platform, <<syncStoreRequest(platform, Credentials, apiIdentifier, TRUE)>>))
    /\ notified' = <<>>
    /\ UNCHANGED <<platform, diskWriteFailed, taken, lockVars, credVars, socketVars, contentVars, tabVars,
                   currentLanguage, buffer, pendingAllEmits>>

\* bodies the server can answer a fetch with
Bodies(r) ==
    CASE r.kind = "images" -> ImageLists
      [] r.kind = "store" -> StoreLists
      [] r.name = COLORS_TAB -> ColorBodies
      [] OTHER -> TabBodies

\* what an exchange with the given outcome delivers
ResponseBodies(r, outcome) == IF outcome = "ok" THEN Bodies(r) ELSE {EmptyMap}

\* swift: tabs.json is written when the synced screen was not known
\* ktLegacy: the same, except for the colors tab; kt: the set is not touched
knownTabsAfterSync(p, known, name) ==
    CASE p = "swift" -> known \cup {name}
      [] p = "ktLegacy" -> IF name # COLORS_TAB THEN known \cup {name} ELSE known
      [] OTHER -> known

\* the cache after the fetched content of request r is written to memory
applyToCache(p, c, r, body) ==
    CASE r.kind = "translations" -> syncTranslationsApply(p, c, r.name, body)
      [] r.kind = "images" -> syncImagesApply(p, c, body)
      [] OTHER -> c

\* the response of request r arrives and the rest of the fetch task runs.
\* Without content the request goes to its completion; with content the
\* cache is written and persisted, kotlin offers the change event to the
\* shared flow, and the completion is posted to the main thread
SyncResponse(r, outcome, body) ==
    /\ BagIn(r, inflight)
    /\ r.stage = "fetching"
    /\ body \in ResponseBodies(r, outcome)
    /\ LET result == fetchResult(platform, r.kind, outcome)
           applied == result = "apply"
           newCache == IF applied THEN applyToCache(platform, cache, r, body) ELSE cache
           newKnown == IF applied /\ r.kind = "translations"
                       THEN knownTabsAfterSync(platform, knownProjectTabs, r.name)
                       ELSE knownProjectTabs
           done == [r EXCEPT !.stage = "completing", !.result = result]
       IN  /\ inflight' = Replace(inflight, r, done)
           /\ cache' = newCache
           /\ dataStoreCache' = IF applied /\ r.kind = "store"
                                THEN Put(dataStoreCache, r.name, body) ELSE dataStoreCache
           /\ knownProjectTabs' = newKnown
           /\ tabsFile' = IF newKnown # knownProjectTabs THEN Some(newKnown) ELSE tabsFile
           /\ cacheFile' = IF applied /\ r.kind # "store" THEN Some(Snapshot(newCache))
                           ELSE cacheFile
           /\ storeFile' = IF applied /\ r.kind = "store" /\ platform = "kt"
                           THEN Some(dataStoreCache') ELSE storeFile
           /\ buffer' = IF applied THEN Publish(platform, buffer, ChangeEvent(platform, r.name))
                        ELSE buffer
    /\ notified' = <<>>
    /\ UNCHANGED <<platform, diskWriteFailed, taken, lockVars, credVars, socketVars, knownDataStoreIdentifiers,
                   currentLanguage, pendingAllEmits>>

\* a main-thread block that leaves its request to be completed again
SyncComplete_keep(r) ==
    /\ BagIn(r, inflight)
    /\ r.stage = "completing"
    /\ notified' = IF r.result = "apply" THEN Notify(platform, ChangeEvent(platform, r.name))
                   ELSE <<>>
    /\ UNCHANGED <<platform, diskWriteFailed, taken, lockVars, credVars, socketVars, contentVars,
                   tabVars, currentLanguage, buffer, pendingAllEmits, inflight>>

\* the block posted to the main thread runs: swift notifies the handlers of a
\* written namespace, then the completion is invoked with the result
SyncComplete(r) ==
    /\ BagIn(r, inflight)
    /\ r.stage = "completing"
    /\ notified' = IF r.result = "apply" THEN Notify(platform, ChangeEvent(platform, r.name))
                   ELSE <<>>
    /\ inflight' = inflight (-) SetToBag({r})
    /\ UNCHANGED <<platform, diskWriteFailed, taken, lockVars, credVars, socketVars, contentVars, tabVars,
                   currentLanguage, buffer, pendingAllEmits>>

\* the coroutine launched at the end of a kotlin pass emits the ALL event
AllEmit ==
    /\ pendingAllEmits > 0
    /\ pendingAllEmits' = pendingAllEmits - 1
    /\ buffer' = Publish(platform, buffer, ALL_SCREENS_UPDATED)
    /\ notified' = <<>>
    /\ UNCHANGED <<platform, diskWriteFailed, taken, lockVars, credVars, socketVars, contentVars, tabVars,
                   currentLanguage, inflight>>

\* the bridge collector takes the buffered event
Collect ==
    /\ buffer # <<>>
    /\ buffer' = Tail(buffer)
    /\ notified' = <<>>
    /\ UNCHANGED <<platform, diskWriteFailed, taken, lockVars, credVars, socketVars, contentVars, tabVars,
                   currentLanguage, inflight, pendingAllEmits>>

\* collectors of the shared flow when the application observes it next to
\* the bridge module
Subscribers == {"bridge", "hook"}

\* subscriber s takes the oldest buffered event; the flow drops the event
\* from its buffer once the slowest subscriber has taken it
Take(s) ==
    /\ buffer # <<>>
    /\ s \in Subscribers \ taken
    /\ IF taken \cup {s} = Subscribers
       THEN buffer' = Tail(buffer) /\ taken' = {}
       ELSE buffer' = buffer /\ taken' = taken \cup {s}
    /\ notified' = <<>>
    /\ UNCHANGED <<platform, diskWriteFailed, lockVars, credVars, socketVars, contentVars, tabVars,
                   currentLanguage, inflight, pendingAllEmits>>

(***************************************************************************)
(* Credentials, authentication and the real-time channel.                  *)
(***************************************************************************)
\* the secret the server holds and confirms in its authentication response
ServerSecret == "s1-confirmed"

IsConnected(sock) == sock \in {"connected", "awaitingAck"}

\* isConnected(): swift compares the manager status with .connected,
\* ktLegacy also wants the handshake acknowledged (kt has no isConnected)
isConnected(p, sock, acked) ==
    IF p = "swift" THEN IsConnected(sock) ELSE IsConnected(sock) /\ acked

\* the key a handshake sent now is sealed with, Nothing if none is sent
\* swift derives it from configuration.projectSecret, kotlin uses symmetricKey
handshakeKey(p, cfg, key) ==
    CASE p = "swift" -> IF cfg # Nothing THEN Some(DeriveKey(The(cfg).projectSecret)) ELSE Nothing
      [] p = "ktLegacy" -> IF cfg # Nothing THEN key ELSE Nothing
      [] OTHER -> key

\* connectSocketIfNeeded (kotlin): the socket status afterwards. swift
\* connectSocket only schedules its block on the main queue
connectSocketIfNeeded(p, cfg, key, sock, acked) ==
    CASE cfg = Nothing -> sock
      [] p = "kt" -> IF IsConnected(sock) THEN sock ELSE "connecting"
      [] p = "ktLegacy" ->
            IF IsConnected(sock) /\ acked THEN sock
            ELSE IF IsConnected(sock)
                 THEN (IF handshakeKey(p, cfg, key) # Nothing THEN "awaitingAck" ELSE sock)
                 ELSE "connecting"
      [] OTHER -> sock

\* keys of the handshakes connectSocketIfNeeded emits on a connected socket
connectHandshakes(p, cfg, key, sock, acked) ==
    IF cfg # Nothing /\ p = "ktLegacy" /\ IsConnected(sock) /\ ~acked
    THEN handshakeKey(p, cfg, key) ELSE Nothing

\* swift startListening / connectSocket: with a configuration the block that
\* connects is put on the main queue, 0.1 s from now
connectSocketSchedules(p, cfg) == p = "swift" /\ cfg # Nothing

\* a block that leaves a connected socket alone
connectSocketRun_keep(cfg, key, sock, acked) ==
    IF sock = "connecting" \/ IsConnected(sock) THEN sock ELSE "connecting"

\* swift, the block of connectSocket: a socket that is connected or
\* connecting is kept (the handshake is sent again if it was not
\* acknowledged), otherwise a new manager and socket are created
connectSocketRun(cfg, key, sock, acked) ==
    IF sock = "connecting" THEN sock
    ELSE IF IsConnected(sock)
         THEN (IF ~acked /\ handshakeKey("swift", cfg, key) # Nothing THEN "awaitingAck" ELSE sock)
         ELSE "connecting"

\* a check that lets every call through
configureAccepted_always(cfg) == TRUE

\* the check configure makes under configLock / configQueue
configureAccepted(cfg) == cfg = Nothing

\* configure(projectId, apiKey, projectSecret): accepted while unconfigured
\* (swift and ktLegacy derive the key from the secret passed in, then the
\* authentication request is sent); a call on a configured SDK logs an
\* error and returns. One authentication request is in flight at a time.
Configure(projectSecret) ==
    /\ IF configureAccepted(configuration)
       THEN /\ ~authPending
            /\ configuration' = Some([projectSecret |-> IF platform = "kt" THEN None
                                                        ELSE projectSecret])
            /\ symmetricKey' = IF platform = "kt" THEN symmetricKey
                               ELSE Some(DeriveKey(projectSecret))
            /\ authPending' = TRUE
       ELSE UNCHANGED <<configuration, symmetricKey, authPending>>
    /\ notified' = <<>>
    /\ UNCHANGED <<platform, diskWriteFailed, taken, lockVars, authToken, confirmedSecret, configFile, socketVars,
                   contentVars, tabVars, currentLanguage, inflight, buffer,
                   pendingAllEmits>>

AuthResults == {"ok", "noToken", "noSecret", "networkError"}

\* swift accepts any response with a token; kotlin also wants projectSecret
authSucceeds(p, result) == result = "ok" \/ (p = "swift" /\ result = "noSecret")

\* the key after a successful authentication: kotlin re-derives it from the
\* secret in the response, swift keeps the key of configure
keyAfterAuth(p, key, receivedProjectSecret) ==
    IF p = "swift" THEN key ELSE Some(DeriveKey(receivedProjectSecret))

\* the authentication response arrives but authentication fails
AuthFailure(result) ==
    /\ authPending
    /\ result \in AuthResults
    /\ ~authSucceeds(platform, result)
    /\ authPending' = FALSE
    /\ notified' = <<>>
    /\ UNCHANGED <<platform, diskWriteFailed, taken, lockVars, configuration, authToken, symmetricKey, confirmedSecret,
                   configFile, socketVars, contentVars, tabVars, currentLanguage, inflight, buffer,
                   pendingAllEmits>>

\* the authentication response arrives and is accepted: token, key, known
\* namespaces, persistence, socket connection and the first syncIfOutdated
AuthSuccess(result, listing) ==
    /\ authPending
    /\ result \in AuthResults
    /\ authSucceeds(platform, result)
    /\ authPending' = FALSE
    /\ authToken' = "token"
    /\ configFile' = Some([authToken |-> authToken',
                            apiSecret |-> IF platform = "ktLegacy" THEN ServerSecret ELSE None])
    /\ symmetricKey' = keyAfterAuth(platform, symmetricKey, ServerSecret)
    /\ confirmedSecret' = IF result = "ok" THEN ServerSecret ELSE confirmedSecret
    /\ knownProjectTabs' = listing.tabs
    /\ knownDataStoreIdentifiers' = IF platform = "kt" THEN listing.stores ELSE knownDataStoreIdentifiers
    /\ tabsFile' = IF platform = "kt" THEN tabsFile ELSE Some(listing.tabs)
    /\ socket' = connectSocketIfNeeded(platform, configuration, symmetricKey', socket, handshakeAcknowledged)
    /\ handshakeKeys' = connectHandshakes(platform, configuration, symmetricKey', socket, handshakeAcknowledged)
    /\ connectScheduled' = (connectScheduled \/ connectSocketSchedules(platform, configuration))
    /\ listeningStopped' = (listeningStopped /\ platform # "swift")
    /\ StartPass([configuration |-> configuration, authToken |-> authToken',
                  symmetricKey |-> symmetricKey'],
                 cache, knownProjectTabs', knownDataStoreIdentifiers')
    /\ notified' = <<>>
    /\ UNCHANGED <<platform, diskWriteFailed, taken, lockVars, configuration, handshakeAcknowledged, contentVars,
                   currentLanguage, buffer>>

\* the socket reports connect: the flag is reset and the handshake is sent
SocketConnect ==
    /\ socket = "connecting"
    /\ handshakeAcknowledged' = FALSE
    /\ LET hk == handshakeKey(platform, configuration, symmetricKey)
       IN  /\ socket' = IF hk # Nothing THEN "awaitingAck" ELSE "connected"
           /\ handshakeKeys' = handshakeKeys \cup hk
    /\ notified' = <<>>
    /\ UNCHANGED <<platform, diskWriteFailed, taken, lockVars, credVars, contentVars, tabVars, currentLanguage, inflight,
                   buffer, pendingAllEmits, connectScheduled, listeningStopped>>

\* a disconnect handler that leaves the handshake flag as it is
SocketDisconnect_keepFlag ==
    /\ IsConnected(socket)
    /\ socket' = "connecting"
    /\ notified' = <<>>
    /\ UNCHANGED <<platform, diskWriteFailed, taken, lockVars, credVars, handshakeAcknowledged, handshakeKeys,
                   connectScheduled, listeningStopped, contentVars, tabVars, currentLanguage,
                   inflight, buffer, pendingAllEmits>>

\* the transport drops; the socket library reconnects by itself
SocketDisconnect ==
    /\ IsConnected(socket)
    /\ socket' = "connecting"
    /\ handshakeAcknowledged' = FALSE
    /\ notified' = <<>>
    /\ UNCHANGED <<platform, diskWriteFailed, taken, lockVars, credVars, handshakeKeys, connectScheduled, listeningStopped,
                   contentVars, tabVars, currentLanguage, inflight, buffer,
                   pendingAllEmits>>

\* "handshake_ack" arrives: kt only logs it; swift and ktLegacy set the flag
\* and call syncIfOutdated
HandshakeAck ==
    /\ socket = "awaitingAck"
    /\ socket' = "connected"
    /\ IF platform = "kt"
       THEN UNCHANGED <<handshakeAcknowledged, inflight, pendingAllEmits>>
       ELSE /\ handshakeAcknowledged' = TRUE
            /\ StartPass(Credentials, cache, knownProjectTabs, knownDataStoreIdentifiers)
    /\ notified' = <<>>
    /\ UNCHANGED <<platform, diskWriteFailed, taken, lockVars, credVars, handshakeKeys, connectScheduled, listeningStopped,
                   contentVars, tabVars, currentLanguage, buffer>>

\* swift: the block connectSocket had scheduled runs on the main queue
ConnectSocketRun ==
    /\ connectScheduled
    /\ connectScheduled' = FALSE
    /\ socket' = connectSocketRun(configuration, symmetricKey, socket, handshakeAcknowledged)
    /\ handshakeKeys' = handshakeKeys \cup
                            (IF IsConnected(socket) /\ ~handshakeAcknowledged
                             THEN handshakeKey(platform, configuration, symmetricKey)
                             ELSE Nothing)
    /\ notified' = <<>>
    /\ UNCHANGED <<platform, diskWriteFailed, taken, lockVars, credVars, handshakeAcknowledged, listeningStopped, contentVars,
                   tabVars, currentLanguage, inflight, buffer, pendingAllEmits>>

\* swift startListening(), called by the application or when the
\* application becomes active
StartListening ==
    /\ platform = "swift"
    /\ connectScheduled' = (connectScheduled \/ connectSocketSchedules(platform, configuration))
    /\ listeningStopped' = FALSE
    /\ notified' = <<>>
    /\ UNCHANGED <<platform, diskWriteFailed, taken, lockVars, credVars, socket, handshakeAcknowledged, handshakeKeys,
                   contentVars, tabVars, currentLanguage, inflight, buffer,
                   pendingAllEmits>>

\* swift stopListening(): the manager is disconnected, manager and socket
\* are released and the handshake flag is reset; a block that connectSocket
\* has scheduled stays on the main queue
StopListening ==
    /\ platform = "swift"
    /\ socket' = "none"
    /\ handshakeAcknowledged' = FALSE
    /\ listeningStopped' = TRUE
    /\ notified' = <<>>
    /\ UNCHANGED <<platform, diskWriteFailed, taken, lockVars, credVars, handshakeKeys, connectScheduled, contentVars,
                   tabVars, currentLanguage, inflight, buffer, pendingAllEmits>>

\* identifiers a push event can name
PushIds == {"home", COLORS_TAB, ALL_SENTINEL, "__all__"}
StorePushIds == {"deals", ALL_SENTINEL}

\* a comparison that respects letter case
IsAllSentinel_exact(identifier) == identifier = ALL_SENTINEL

\* equals("__ALL__", ignoreCase = true) / uppercased() == "__ALL__"
IsAllSentinel(identifier) == identifier \in {ALL_SENTINEL, "__all__"}

\* the request a push event for one namespace starts
pushRequest(p, cr, identifier, isDataStore) ==
    CASE p = "kt" /\ isDataStore -> syncStoreRequest(p, cr, identifier, FALSE)
      [] p = "ktLegacy" ->
            syncRequest(p, cr, IF identifier = COLORS_TAB THEN COLORS_UPDATED(p) ELSE identifier, FALSE)
      [] p = "swift" -> syncRequest(p, cr, identifier, TRUE)
      [] OTHER -> syncRequest(p, cr, identifier, FALSE)

\* "translationsUpdated" / "dataStoreUpdated" arrives on the socket
PushUpdate(identifier, isDataStore) ==
    /\ IsConnected(socket)
    /\ IF isDataStore THEN platform = "kt" /\ identifier \in StorePushIds
                      ELSE identifier \in PushIds
    /\ IF IsAllSentinel(identifier)
       THEN StartPass(Credentials, cache, knownProjectTabs, knownDataStoreIdentifiers)
       ELSE LET started == Tracked(platform, <<pushRequest(platform, Credentials, identifier, isDataStore)>>)
            IN  Start(started) /\ UNCHANGED pendingAllEmits
    /\ notified' = <<>>
    /\ UNCHANGED <<platform, diskWriteFailed, taken, lockVars, credVars, socketVars, contentVars, tabVars, currentLanguage, buffer>>


(***************************************************************************)
(* Language.                                                               *)
(***************************************************************************)
\* the syncs setLanguage starts: kt runs syncIfOutdated, ktLegacy syncs the
\* known tabs and colors, swift the cached and known tabs
setLanguageRequests(p) ==
    CASE p = "kt" -> syncIfOutdatedRequests(p, Credentials, cache, knownProjectTabs,
                                            knownDataStoreIdentifiers)
      [] p = "ktLegacy" ->
            LET tabsToUpdate == SeqOfSet(knownProjectTabs \ {COLORS_TAB}) \o <<COLORS_TAB>>
            IN  [i \in 1..Len(tabsToUpdate) |->
                    syncRequest(p, Credentials,
                                IF tabsToUpdate[i] = COLORS_TAB THEN COLORS_UPDATED(p)
                                ELSE tabsToUpdate[i], TRUE)]
      [] OTHER ->
            LET tabs == SeqOfSet(DOMAIN cache \cup knownProjectTabs)
            IN  [i \in 1..Len(tabs) |-> syncRequest(p, Credentials, tabs[i], TRUE)]

\* swift notifies the handlers of every tab with the cached values of the
\* new language before the syncs are started
setLanguageEvents(p) ==
    IF p = "swift" THEN SeqOfSet(DOMAIN cache \cup knownProjectTabs) ELSE <<>>

\* the early returns of setLanguage (force = false): the code is the active
\* one already, or (swift) the SDK is not configured
setLanguageAccepted(p, cfg, current, languageCode) ==
    languageCode # current /\ (p = "swift" => cfg # Nothing)

\* setLanguage(languageCode): the active locale is set and persisted and the
\* syncs are started; a call that returns early changes nothing
SetLanguage(languageCode) ==
    /\ languageCode \in Locales
    /\ IF setLanguageAccepted(platform, configuration, currentLanguage, languageCode)
       THEN /\ currentLanguage' = languageCode
            /\ Start(Tracked(platform, setLanguageRequests(platform)))
            /\ pendingAllEmits + syncIfOutdatedEmits(platform) <= MaxLaunched
            /\ pendingAllEmits' = pendingAllEmits + syncIfOutdatedEmits(platform)
            /\ notified' = setLanguageEvents(platform)
       ELSE /\ UNCHANGED <<currentLanguage, inflight, pendingAllEmits>>
            /\ notified' = <<>>
    /\ UNCHANGED <<platform, diskWriteFailed, taken, lockVars, credVars, socketVars, contentVars, tabVars, buffer>>

(***************************************************************************)
(* Cache management (swift).                                               *)
(***************************************************************************)
\* clearCache notifies every registered handler with empty values; the
\* screens with a handler are taken to be the cached and known ones
clearCacheEvents(c, known) == SeqOfSet(DOMAIN c \cup known)

\* a clearCache that empties the memory and leaves the files on disk
ClearCache_memoryOnly ==
    /\ platform = "swift"
    /\ cache' = EmptyMap
    /\ knownProjectTabs' = {}
    /\ authToken' = None
    /\ symmetricKey' = Nothing
    /\ handshakeAcknowledged' = FALSE
    /\ configuration' = Nothing
    /\ notified' = clearCacheEvents(cache, knownProjectTabs)
    /\ UNCHANGED <<platform, diskWriteFailed, taken, lockVars, authPending, confirmedSecret, dataStoreCache, storeFile,
                   knownDataStoreIdentifiers, currentLanguage, inflight, socket,
                   handshakeKeys, connectScheduled, listeningStopped, buffer,
                   pendingAllEmits, cacheFile, tabsFile, configFile>>

\* clearCache(): the barrier block empties cache, tab list, token, key and
\* handshake flag and deletes cache.json, tabs.json and config.json; the
\* runtime configuration is set to nil. The socket is left as it is.
ClearCache ==
    /\ platform = "swift"
    /\ cache' = EmptyMap
    /\ knownProjectTabs' = {}
    /\ authToken' = None
    /\ symmetricKey' = Nothing
    /\ handshakeAcknowledged' = FALSE
    /\ cacheFile' = NoFile
    /\ tabsFile' = NoFile
    /\ configFile' = NoFile
    /\ configuration' = Nothing
    /\ notified' = clearCacheEvents(cache, knownProjectTabs)
    /\ UNCHANGED <<platform, diskWriteFailed, taken, lockVars, authPending, confirmedSecret, dataStoreCache, storeFile,
                   knownDataStoreIdentifiers, currentLanguage, inflight, socket,
                   handshakeKeys, connectScheduled, listeningStopped, buffer,
                   pendingAllEmits>>

\* the process is killed and started again: init loads the persisted state.
\* damaged tells whether the cache file was corrupted in the meantime
Restart(damaged) ==
    LET found == IF damaged /\ cacheFile # NoFile THEN Some(Malformed) ELSE cacheFile
        secret == IF configFile = NoFile THEN None ELSE The(configFile).apiSecret
    IN  /\ cache' = loadCacheFromDisk(found)
        /\ cacheFile' = cacheFileAfterLoad(platform, found)
        /\ knownProjectTabs' = loadTabsFromDisk(platform, found, tabsFile)
        /\ knownDataStoreIdentifiers' = {}
        /\ dataStoreCache' = IF storeFile = NoFile THEN EmptyMap ELSE The(storeFile)
        /\ authToken' = IF configFile = NoFile THEN None ELSE The(configFile).authToken
        /\ symmetricKey' = IF secret # None THEN Some(DeriveKey(secret)) ELSE Nothing
        /\ configuration' = Nothing
        /\ authPending' = FALSE
        /\ confirmedSecret' = None
        /\ inflight' = EmptyBag
        /\ socket' = "none"
        /\ handshakeAcknowledged' = FALSE
        /\ handshakeKeys' = {}
        /\ connectScheduled' = FALSE
        /\ listeningStopped' = FALSE
        /\ buffer' = <<>>
        /\ pendingAllEmits' = 0
        /\ notified' = <<>>
        /\ UNCHANGED <<platform, diskWriteFailed, taken, lockVars, currentLanguage, storeFile, tabsFile, configFile>>

(***************************************************************************)
(* The cache lock: the write of a response item by item, and a reader.     *)
(***************************************************************************)
\* the namespace with the entry of one key set
PutKey(c, name, k, entry) ==
    LET ns == Namespace(c, name)
    IN  Put(c, name, [x \in DOMAIN ns \cup {k} |-> IF x = k THEN entry ELSE ns[x]])

\* synchronized(cacheLock) / cacheQueue: the block runs when no other does
cacheLockFree(w) == w = Nothing

\* the fetch task of r got its response and enters the locked block
WriteBegin(r, body) ==
    /\ BagIn(r, inflight)
    /\ r.stage = "fetching"
    /\ r.kind = "translations"
    /\ fetchResult(platform, r.kind, "ok") = "apply"
    /\ body \in Bodies(r)
    /\ cacheLockFree(writing)
    /\ LET held == [r EXCEPT !.stage = "writing"]
       IN  /\ inflight' = Replace(inflight, r, held)
           /\ writing' = Some([r |-> held, body |-> body, todo |-> DOMAIN body, open |-> {},
                               draft |-> Namespace(cache, r.name), start |-> cache])
    /\ notified' = <<>>
    /\ UNCHANGED <<platform, diskWriteFailed, taken, reader, credVars, socketVars, contentVars, tabVars,
                   currentLanguage, buffer, pendingAllEmits>>

\* one statement of the loop over the response items: swift assigns into its
\* local copy, kt assigns into the cached map, ktLegacy clears the cached
\* entry of the key and then fills it
WriteItem(k) ==
    /\ writing # Nothing
    /\ LET w == CHOOSE x \in writing : TRUE
       IN  /\ k \in w.todo
           /\ w.open \subseteq {k}
           /\ CASE platform = "swift" ->
                    /\ writing' = Some([w EXCEPT !.todo = @ \ {k},
                                          !.draft = [x \in DOMAIN @ \cup {k} |->
                                                        IF x = k THEN w.body[k] ELSE @[x]]])
                    /\ cache' = cache
                [] platform = "kt" ->
                    /\ writing' = Some([w EXCEPT !.todo = @ \ {k}])
                    /\ cache' = PutKey(cache, w.r.name, k, w.body[k])
                [] platform = "ktLegacy" /\ w.open = {} ->
                    /\ writing' = Some([w EXCEPT !.open = {k}])
                    /\ cache' = PutKey(cache, w.r.name, k, EmptyMap)
                [] platform = "ktLegacy" /\ w.open = {k} ->
                    /\ writing' = Some([w EXCEPT !.open = {}, !.todo = @ \ {k}])
                    /\ cache' = PutKey(cache, w.r.name, k, w.body[k])
    /\ notified' = <<>>
    /\ UNCHANGED <<platform, diskWriteFailed, taken, reader, credVars, socketVars, dataStoreCache, cacheFile, storeFile,
                   tabVars, inflight, currentLanguage, buffer, pendingAllEmits>>

\* the loop is over: swift assigns its copy to the cache, the tab is recorded,
\* the block ends, the cache is persisted, the event offered and the
\* completion posted
WriteEnd ==
    /\ writing # Nothing
    /\ LET w == CHOOSE x \in writing : TRUE
           newCache == IF platform = "swift" THEN Put(cache, w.r.name, w.draft) ELSE cache
           newKnown == knownTabsAfterSync(platform, knownProjectTabs, w.r.name)
       IN  /\ w.todo = {}
           /\ cache' = newCache
           /\ knownProjectTabs' = newKnown
           /\ tabsFile' = IF newKnown # knownProjectTabs THEN Some(newKnown) ELSE tabsFile
           /\ cacheFile' = Some(Snapshot(newCache))
           /\ inflight' = Replace(inflight, w.r,
                                  [w.r EXCEPT !.stage = "completing", !.result = "apply"])
           /\ buffer' = Publish(platform, buffer, ChangeEvent(platform, w.r.name))
    /\ writing' = Nothing
    /\ notified' = <<>>
    /\ UNCHANGED <<platform, diskWriteFailed, taken, reader, credVars, socketVars, dataStoreCache, storeFile,
                   knownDataStoreIdentifiers, currentLanguage, pendingAllEmits>>

\* a thread calls translation(forKey, inTab) and waits for the lock
ReadCall(k, tab) ==
    /\ reader.phase = "idle"
    /\ reader' = [reader EXCEPT !.phase = "waiting", !.tab = tab, !.key = k,
                                 !.waited = writing # Nothing]
    /\ notified' = <<>>
    /\ UNCHANGED <<platform, diskWriteFailed, taken, writing, credVars, socketVars, contentVars, tabVars, inflight,
                   currentLanguage, buffer, pendingAllEmits>>

\* what translation(key, tab) returns from cache c
Read(c, k, tab) ==
    LET v == Lookup(c, tab, k, currentLanguage)
    IN  IF v = None THEN "" ELSE v

\* the read runs and returns; before and after are what it would return
\* from the cache as it was when the write in progress began and as it is
\* when that write is complete
ReadValue ==
    LET w == CHOOSE x \in writing : TRUE
    IN  [reader EXCEPT !.phase = "done",
                       !.value = translation(reader.key, reader.tab),
                       !.before = IF writing = Nothing THEN translation(reader.key, reader.tab)
                                  ELSE Read(w.start, reader.key, reader.tab),
                       !.after = IF writing = Nothing THEN translation(reader.key, reader.tab)
                                 ELSE Read(applyToCache(platform, w.start, w.r, w.body),
                                           reader.key, reader.tab)]

\* a read that does not take the lock
ReadRun_unlocked ==
    /\ reader.phase = "waiting"
    /\ reader' = ReadValue
    /\ notified' = <<>>
    /\ UNCHANGED <<platform, diskWriteFailed, taken, writing, credVars, socketVars, contentVars, tabVars, inflight,
                   currentLanguage, buffer, pendingAllEmits>>

ReadRun ==
    /\ reader.phase = "waiting"
    /\ cacheLockFree(writing)
    /\ reader' = ReadValue
    /\ notified' = <<>>
    /\ UNCHANGED <<platform, diskWriteFailed, taken, writing, credVars, socketVars, contentVars, tabVars, inflight,
                   currentLanguage, buffer, pendingAllEmits>>

\* the caller has its value
ReadReturn ==
    /\ reader.phase = "done"
    /\ reader' = [phase |-> "idle", tab |-> "", key |-> "", waited |-> FALSE,
                  before |-> "", after |-> "", value |-> ""]
    /\ notified' = <<>>
    /\ UNCHANGED <<platform, diskWriteFailed, taken, writing, credVars, socketVars, contentVars, tabVars, inflight,
                   currentLanguage, buffer, pendingAllEmits>>

\* keys the reader asks for
ReadKeys == {"title", "subtitle"}

(***************************************************************************)
(* Persistence of the cache: the write to memory and the write of the      *)
(* snapshot file, which kotlin runs in two critical sections.              *)
(***************************************************************************)
\* how a write of the snapshot file ends: swift writes atomically, kotlin's
\* writeText truncates the file first and may leave a partial text
DiskOutcomes(p) ==
    IF p = "swift" THEN {"written", "failed"} ELSE {"written", "failed", "partial"}

\* a write that never reaches the file
persistCacheToDisk_never(file, c, disk) == file

\* the file after the write of cache c
persistCacheToDisk(file, c, disk) ==
    CASE disk = "written" -> Some(Snapshot(c))
      [] disk = "partial" -> Some(Malformed)
      [] OTHER -> file

\* a persist whose error is caught inside it on every core
persistResult_swallowed(p, disk) == "apply"

\* swift and ktLegacy catch the error inside the persist; on kt it is thrown
\* into the try block of the sync, which skips the event and reports false
persistResult(p, disk) ==
    IF p = "kt" /\ disk # "written" THEN "fail" ELSE "apply"

\* kotlin, first critical section: the fetched content is written to memory
\* (ktLegacy adds and persists a tab that was not known)
SyncApply(r, body) ==
    /\ platform # "swift"
    /\ BagIn(r, inflight)
    /\ r.stage = "fetching"
    /\ body \in ResponseBodies(r, "ok")
    /\ cacheLockFree(writing)
    /\ LET newKnown == IF r.kind = "translations"
                       THEN knownTabsAfterSync(platform, knownProjectTabs, r.name)
                       ELSE knownProjectTabs
       IN  /\ inflight' = Replace(inflight, r, [r EXCEPT !.stage = "persisting"])
           /\ cache' = applyToCache(platform, cache, r, body)
           /\ dataStoreCache' = IF r.kind = "store" THEN Put(dataStoreCache, r.name, body)
                                ELSE dataStoreCache
           /\ knownProjectTabs' = newKnown
           /\ tabsFile' = IF newKnown # knownProjectTabs THEN Some(newKnown) ELSE tabsFile
    /\ notified' = <<>>
    /\ UNCHANGED <<platform, diskWriteFailed, taken, lockVars, credVars, socketVars,
                   knownDataStoreIdentifiers, cacheFile, storeFile, currentLanguage,
                   buffer, pendingAllEmits>>

\* kotlin, second critical section: the cache as it is now is written to the
\* file, then the change event is offered and the completion posted
PersistCacheToDisk(r, disk) ==
    /\ platform # "swift"
    /\ BagIn(r, inflight)
    /\ r.stage = "persisting"
    /\ disk \in DiskOutcomes(platform)
    /\ cacheLockFree(writing)
    /\ LET result == persistResult(platform, disk)
           done == [r EXCEPT !.stage = "completing", !.result = result]
       IN  /\ inflight' = Replace(inflight, r, done)
           /\ cacheFile' = IF r.kind # "store" THEN persistCacheToDisk(cacheFile, cache, disk)
                           ELSE cacheFile
           /\ storeFile' = IF r.kind = "store" /\ disk = "written" THEN Some(dataStoreCache)
                           ELSE storeFile
           /\ buffer' = IF result = "apply"
                        THEN Publish(platform, buffer, ChangeEvent(platform, r.name))
                        ELSE buffer
    /\ diskWriteFailed' = (diskWriteFailed \/ disk # "written")
    /\ notified' = <<>>
    /\ UNCHANGED <<platform, taken, lockVars, credVars, socketVars, cache, dataStoreCache, tabVars,
                   currentLanguage, pendingAllEmits>>

\* swift, one barrier block: the fetched content is written to memory, a tab
\* that was not known is added and persisted, the cache is saved, and the
\* handlers and the completion are posted to the main queue
SyncSave(r, body, disk) ==
    /\ platform = "swift"
    /\ BagIn(r, inflight)
    /\ r.stage = "fetching"
    /\ body \in ResponseBodies(r, "ok")
    /\ disk \in DiskOutcomes(platform)
    /\ cacheLockFree(writing)
    /\ LET result == persistResult(platform, disk)
           newKnown == IF r.kind = "translations"
                       THEN knownTabsAfterSync(platform, knownProjectTabs, r.name)
                       ELSE knownProjectTabs
           done == [r EXCEPT !.stage = "completing", !.result = result]
       IN  /\ inflight' = Replace(inflight, r, done)
           /\ cache' = applyToCache(platform, cache, r, body)
           /\ knownProjectTabs' = newKnown
           /\ tabsFile' = IF newKnown # knownProjectTabs THEN Some(newKnown) ELSE tabsFile
           /\ cacheFile' = persistCacheToDisk(cacheFile, cache', disk)
    /\ diskWriteFailed' = (diskWriteFailed \/ disk # "written")
    /\ notified' = <<>>
    /\ UNCHANGED <<platform, taken, lockVars, credVars, socketVars, dataStoreCache, storeFile,
                   knownDataStoreIdentifiers, currentLanguage, buffer, pendingAllEmits>>

(***************************************************************************)
(* Specification.                                                          *)
(***************************************************************************)
Next ==
    \/ \E secret \in Secrets : Configure(secret)
    \/ \E result \in AuthResults : AuthFailure(result)
    \/ \E result \in AuthResults, listing \in {EmptyListing, FullListing} : AuthSuccess(result, listing)
    \/ \E name \in SyncArgs(platform) : Sync(name)
    \/ \E id \in ServerStores : SyncStore(id)
    \/ \E r \in BagToSet(inflight), outcome \in Outcomes :
            \E body \in ResponseBodies(r, outcome) : SyncResponse(r, outcome, body)
    \/ \E r \in BagToSet(inflight) : SyncComplete(r)
    \/ AllEmit
    \/ Collect
    \/ SocketConnect
    \/ SocketDisconnect
    \/ ConnectSocketRun
    \/ HandshakeAck
    \/ StartListening
    \/ StopListening
    \/ \E id \in PushIds \cup StorePushIds, isDataStore \in BOOLEAN : PushUpdate(id, isDataStore)
    \/ \E lang \in Locales : SetLanguage(lang)
    \/ ClearCache
    \/ \E damaged \in BOOLEAN : Restart(damaged)
    \/ \E r \in BagToSet(inflight) : \E body \in Bodies(r) : WriteBegin(r, body)
    \/ \E k \in ItemKeys : WriteItem(k)
    \/ WriteEnd
    \/ \E k \in ReadKeys, tab \in ServerTabs : ReadCall(k, tab)
    \/ ReadRun
    \/ ReadReturn
    \/ \E s \in Subscribers : Take(s)
    \/ \E r \in BagToSet(inflight) : \E body \in Bodies(r) : SyncApply(r, body)
    \/ \E r \in BagToSet(inflight), disk \in DiskOutcomes(platform) : PersistCacheToDisk(r, disk)
    \/ \E r \in BagToSet(inflight), disk \in DiskOutcomes(platform) :
            \E body \in Bodies(r) : SyncSave(r, body, disk)

Spec == Init /\ [][Next]_vars

\* the change events of the first pass and of syncs of the application,
\* observed by two collectors of the shared flow
NextSubscribers ==
    \/ Configure(ServerSecret)
    \/ AuthSuccess("ok", EmptyListing)
    \/ \E name \in ServerTabs : Sync(name)
    \/ \E r \in BagToSet(inflight) :
            SyncResponse(r, "ok", CHOOSE body \in ResponseBodies(r, "ok") : TRUE)
    \/ \E r \in BagToSet(inflight) : SyncComplete(r)
    \/ AllEmit
    \/ \E s \in Subscribers : Take(s)

SpecSubscribers == Init /\ [][NextSubscribers]_vars

\* the bodies answered in the persistence runs: both bodies of a tab, one
\* body of the colors tab and one image list
PersistBodies(r) ==
    IF r.kind = "translations" /\ r.name # COLORS_TAB THEN Bodies(r)
    ELSE {CHOOSE body \in Bodies(r) : TRUE}

\* concurrent syncs under snapshot writes that may fail, and restarts
NextPersist ==
    \/ Configure(ServerSecret)
    \/ AuthSuccess("ok", EmptyListing)
    \/ Sync("home")
    \/ \E r \in BagToSet(inflight) : \E body \in PersistBodies(r) : SyncApply(r, body)
    \/ \E r \in BagToSet(inflight), disk \in DiskOutcomes(platform) : PersistCacheToDisk(r, disk)
    \/ \E r \in BagToSet(inflight), disk \in DiskOutcomes(platform) :
            \E body \in PersistBodies(r) : SyncSave(r, body, disk)
    \/ \E r \in BagToSet(inflight) : SyncComplete(r)
    \/ AllEmit
    \/ Collect
    \/ \E damaged \in BOOLEAN : Restart(damaged)

SpecPersist == Init /\ [][NextPersist]_vars

\* syncs of a tab written item by item while the application reads it
NextAtomic ==
    \/ Configure(ServerSecret)
    \/ AuthSuccess("ok", EmptyListing)
    \/ \E name \in ServerTabs : Sync(name)
    \/ \E r \in BagToSet(inflight) : \E body \in Bodies(r) : WriteBegin(r, body)
    \/ \E k \in ItemKeys : WriteItem(k)
    \/ WriteEnd
    \/ \E r \in BagToSet(inflight) : SyncComplete(r)
    \/ AllEmit
    \/ Collect
    \/ \E k \in ReadKeys, tab \in ServerTabs : ReadCall(k, tab)
    \/ ReadRun
    \/ ReadReturn

SpecAtomic == Init /\ [][NextAtomic]_vars

(***************************************************************************)
(* Bridge adapters: the promise of a sync or syncStore call.                *)
(***************************************************************************)
Resolved(value) == [settled |-> "resolved", value |-> value]
Rejected(code) == [settled |-> "rejected", value |-> code]

\* the React Native modules in front of each core and the operations they export
Bridges(p, operation) ==
    CASE p = "swift" -> IF operation = "sync" THEN {"ios.m", "ios.swift"} ELSE {"ios.m"}
      [] p = "kt" -> {"android.store", "android.cmscure"}
      [] p = "ktLegacy" -> IF operation = "sync" THEN {"android.legacy"} ELSE {}

\* what the completion block of the module does with the promise
settle(bridge, operation, ok) ==
    CASE bridge = "android.store" /\ operation = "sync" ->
            Resolved(IF ok THEN "true" ELSE "false")
      [] bridge = "android.store" /\ operation = "syncStore" ->
            IF ok THEN Resolved("items") ELSE Rejected("SYNC_STORE_FAILED")
      [] bridge = "android.cmscure" /\ operation = "syncStore" ->
            Resolved(IF ok THEN "true" ELSE "false")
      [] bridge = "android.cmscure" /\ operation = "sync" ->
            IF ok THEN Resolved("true") ELSE Rejected("sync_failed")
      [] bridge = "android.legacy" ->
            IF ok THEN Resolved("null") ELSE Rejected("SYNC_FAILED")
      [] bridge = "ios.m" /\ operation = "sync" ->
            IF ok THEN Resolved("true") ELSE Rejected("sync_failed")
      [] bridge = "ios.m" /\ operation = "syncStore" ->
            IF ok THEN Resolved("true") ELSE Rejected("syncStore_failed")
      [] bridge = "ios.swift" ->
            IF ok THEN Resolved("null") ELSE Rejected("SYNC_ERROR")

\* the sync engine driven by the application, the socket left aside
NextSync ==
    \/ Configure(ServerSecret)
    \/ \E result \in AuthResults : AuthFailure(result)
    \/ \E result \in AuthResults, listing \in {EmptyListing} : AuthSuccess(result, listing)
    \/ \E name \in SyncArgs(platform) : Sync(name)
    \/ \E id \in ServerStores : SyncStore(id)
    \/ \E r \in BagToSet(inflight), outcome \in Outcomes :
            \E body \in ResponseBodies(r, outcome) : SyncResponse(r, outcome, body)
    \/ \E r \in BagToSet(inflight) : SyncComplete(r)
    \/ AllEmit
    \/ Collect

SpecSync == Init /\ [][NextSync]_vars

\* the real-time channel and the syncs it starts, the application idle
NextChannel ==
    \/ \E secret \in Secrets : Configure(secret)
    \/ \E result \in AuthResults : AuthFailure(result)
    \/ \E result \in AuthResults, listing \in {FullListing} : AuthSuccess(result, listing)
    \/ \E r \in BagToSet(inflight), outcome \in {"ok", "networkError"} :
            SyncResponse(r, outcome, CHOOSE body \in ResponseBodies(r, outcome) : TRUE)
    \/ \E r \in BagToSet(inflight) : SyncComplete(r)
    \/ AllEmit
    \/ Collect
    \/ SocketConnect
    \/ SocketDisconnect
    \/ ConnectSocketRun
    \/ HandshakeAck
    \/ \E id \in PushIds \cup StorePushIds, isDataStore \in BOOLEAN : PushUpdate(id, isDataStore)

SpecChannel == Init /\ [][NextChannel]_vars

\* configuration, authentication, content and cache management over the
\* life of the installation, the socket left aside
NextLifecycle ==
    \/ \E secret \in Secrets : Configure(secret)
    \/ \E result \in AuthResults : AuthFailure(result)
    \/ \E result \in AuthResults : AuthSuccess(result, FullListing)
    \/ \E r \in BagToSet(inflight), outcome \in {"ok", "networkError"} :
            SyncResponse(r, outcome, CHOOSE body \in ResponseBodies(r, outcome) : TRUE)
    \/ \E r \in BagToSet(inflight) : SyncComplete(r)
    \/ AllEmit
    \/ Collect
    \/ ClearCache

SpecLifecycle == Init /\ [][NextLifecycle]_vars

\* the real-time channel opened, stopped and started again by the
\* application, with the pushes for one tab
NextListen ==
    \/ Configure(ServerSecret)
    \/ \E result \in AuthResults : AuthFailure(result)
    \/ \E result \in AuthResults : AuthSuccess(result, EmptyListing)
    \/ \E r \in BagToSet(inflight), outcome \in {"ok", "networkError"} :
            SyncResponse(r, outcome, CHOOSE body \in ResponseBodies(r, outcome) : TRUE)
    \/ \E r \in BagToSet(inflight) : SyncComplete(r)
    \/ AllEmit
    \/ Collect
    \/ SocketConnect
    \/ SocketDisconnect
    \/ ConnectSocketRun
    \/ HandshakeAck
    \/ StartListening
    \/ StopListening
    \/ \E id \in ServerTabs : PushUpdate(id, FALSE)

SpecListen == Init /\ [][NextListen]_vars

\* the channel through connects, drops, acknowledgements and the
\* application's sync, startListening and stopListening
NextSocket ==
    \/ Configure(ServerSecret)
    \/ \E result \in AuthResults : AuthFailure(result)
    \/ \E result \in AuthResults : AuthSuccess(result, EmptyListing)
    \/ \E name \in ServerTabs : Sync(name)
    \/ SocketConnect
    \/ SocketDisconnect
    \/ ConnectSocketRun
    \/ HandshakeAck
    \/ StartListening
    \/ StopListening
    \/ \E r \in BagToSet(inflight) :
            SyncResponse(r, "ok", CHOOSE body \in ResponseBodies(r, "ok") : TRUE)
    \/ \E r \in BagToSet(inflight) : SyncComplete(r)
    \/ AllEmit
    \/ Collect

SpecSocket == Init /\ [][NextSocket]_vars

\* the channel of an SDK that is cleared and configured again while its
\* socket stays up; the main queue runs the block connectSocket scheduled
NextHandshake ==
    \/ Configure(ServerSecret)
    \/ AuthSuccess("ok", EmptyListing)
    \/ SocketConnect
    \/ SocketDisconnect
    \/ ConnectSocketRun
    \/ HandshakeAck
    \/ ClearCache
    \/ \E r \in BagToSet(inflight) :
            SyncResponse(r, "ok", CHOOSE body \in ResponseBodies(r, "ok") : TRUE)
    \/ \E r \in BagToSet(inflight) : SyncComplete(r)
    \/ AllEmit
    \/ Collect

SpecHandshake == Init /\ [][NextHandshake]_vars /\ WF_vars(ConnectSocketRun)

\* a manual sync of a listed tab racing the sync the pass started for it
NextRace ==
    \/ Configure(ServerSecret)
    \/ AuthSuccess("ok", FullListing)
    \/ \E name \in ServerTabs : Sync(name)
    \/ \E r \in BagToSet(inflight) :
            \E body \in ResponseBodies(r, "ok") : SyncResponse(r, "ok", body)
    \/ \E r \in BagToSet(inflight) : SyncComplete(r)
    \/ AllEmit
    \/ Collect

SpecRace == Init /\ [][NextRace]_vars

\* the images namespace fetched again and again with changing lists
NextImages ==
    \/ Configure(ServerSecret)
    \/ AuthSuccess("ok", EmptyListing)
    \/ Sync(IMAGES_UPDATED(platform))
    \/ \E r \in BagToSet(inflight), outcome \in {"ok", "networkError"} :
            \E body \in ResponseBodies(r, outcome) : SyncResponse(r, outcome, body)
    \/ \E r \in BagToSet(inflight) : SyncComplete(r)
    \/ AllEmit
    \/ Collect

SpecImages == Init /\ [][NextImages]_vars

\* names the application can pass to sync: a tab and the two reserved names
DispatchArgs == ServerTabs \cup {COLORS_TAB, IMAGES_TAB}

\* syncs of the application by namespace name
NextDispatch ==
    \/ Configure(ServerSecret)
    \/ AuthSuccess("ok", EmptyListing)
    \/ \E name \in DispatchArgs : Sync(name)
    \/ \E r \in BagToSet(inflight), outcome \in {"ok", "networkError"} :
            \E body \in ResponseBodies(r, outcome) : SyncResponse(r, outcome, body)
    \/ \E r \in BagToSet(inflight) : SyncComplete(r)
    \/ AllEmit
    \/ Collect

SpecDispatch == Init /\ [][NextDispatch]_vars

\* calls of sync and syncStore with a completion on every path: before the
\* configuration, without credentials, with every outcome of the exchange
NextCompletion ==
    \/ Configure(ServerSecret)
    \/ AuthSuccess("ok", EmptyListing)
    \/ \E name \in ServerTabs \cup {IMAGES_TAB} : Sync(name)
    \/ \E id \in ServerStores : SyncStore(id)
    \/ \E r \in BagToSet(inflight), outcome \in Outcomes :
            SyncResponse(r, outcome, CHOOSE body \in ResponseBodies(r, outcome) : TRUE)
    \/ \E r \in BagToSet(inflight) : SyncComplete(r)
    \/ AllEmit
    \/ Collect

\* URLSession and Retrofit end every exchange (response, error or timeout),
\* and the main thread runs the blocks posted to it
SpecCompletion ==
    /\ Init /\ [][NextCompletion]_vars
    /\ WF_vars(\E r \in BagToSet(inflight), outcome \in Outcomes :
                  r.cb /\ SyncResponse(r, outcome, CHOOSE body \in ResponseBodies(r, outcome) : TRUE))
    /\ WF_vars(\E r \in BagToSet(inflight) : r.cb /\ SyncComplete(r))

\* the active locale changed by the application while content is fetched,
\* and by the next process before it is configured
NextLanguage ==
    \/ Configure(ServerSecret)
    \/ AuthSuccess("ok", EmptyListing)
    \/ \E name \in ServerTabs : Sync(name)
    \/ \E r \in BagToSet(inflight), outcome \in {"ok", "networkError"} :
            SyncResponse(r, outcome, CHOOSE body \in ResponseBodies(r, outcome) : TRUE)
    \/ \E r \in BagToSet(inflight) : SyncComplete(r)
    \/ AllEmit
    \/ Collect
    \/ \E lang \in Locales : SetLanguage(lang)
    \/ Restart(FALSE)

SpecLanguage == Init /\ [][NextLanguage]_vars

\* content fetched by the first pass and by the application, persisted, and
\* loaded again by the next process
NextRestart ==
    \/ Configure(ServerSecret)
    \/ \E result \in AuthResults : AuthFailure(result)
    \/ \E result \in AuthResults : AuthSuccess(result, EmptyListing)
    \/ \E name \in ServerTabs : Sync(name)
    \/ \E r \in BagToSet(inflight), outcome \in {"ok", "networkError"} :
            SyncResponse(r, outcome, CHOOSE body \in ResponseBodies(r, outcome) : TRUE)
    \/ \E r \in BagToSet(inflight) : SyncComplete(r)
    \/ AllEmit
    \/ Collect
    \/ \E damaged \in BOOLEAN : Restart(damaged)

SpecRestart == Init /\ [][NextRestart]_vars

\* processes that start from the files a listed project left on disk
NextStartup ==
    \/ Configure(ServerSecret)
    \/ AuthSuccess("ok", FullListing)
    \/ \E r \in BagToSet(inflight), outcome \in {"ok", "networkError"} :
            SyncResponse(r, outcome, CHOOSE body \in ResponseBodies(r, outcome) : TRUE)
    \/ \E r \in BagToSet(inflight) : SyncComplete(r)
    \/ AllEmit
    \/ Collect
    \/ \E damaged \in BOOLEAN : Restart(damaged)

SpecStartup == Init /\ [][NextStartup]_vars

(***************************************************************************)
(* Properties of the sync engine (checked under SpecSync).                 *)
(***************************************************************************)
\* the requests in flight, each taken once
InFlight == BagToSet(inflight)

\* this step took one copy of the waiting request r out of the requests
\* that wait for their response (every step that delivers a response to r does)
Answered(r) ==
    r.stage = "fetching" /\ CopiesIn(r, inflight') = CopiesIn(r, inflight) - 1

\* this step ran the completion block of one copy of r
Completed(r) ==
    r.stage = "completing" /\ CopiesIn(r, inflight') = CopiesIn(r, inflight) - 1

\* the record request r becomes when its task ends with the given result
Done(r, result) == [r EXCEPT !.stage = "completing", !.result = result]

C2_SyncedValuesReadBack ==
    [][/\ \A r \in InFlight : Answered(r) /\ r.kind = "translations" =>
             \A b \in TabBodies \cup ColorBodies :
                 SyncResponse(r, "ok", b)
                 => \A k \in DOMAIN b :
                        translation(k, r.name)' =
                            IF currentLanguage' \in DOMAIN b[k]
                            THEN b[k][currentLanguage'] ELSE ""
       /\ (cache' # cache \/ currentLanguage' # currentLanguage) =>
             \A n \in ServerTabs \cup {COLORS_TAB}, k \in ItemKeys :
                 translation(k, n)' # translation(k, n)
                 => \E r \in InFlight, b \in TabBodies \cup ColorBodies :
                        r.name = n /\ r.kind = "translations" /\ SyncResponse(r, "ok", b)
       /\ \A r \in InFlight : Completed(r) /\ r.result = "apply" =>
             (SyncComplete(r) => success(r))]_vars

\* C2 witness: the completion of a sync of "home" is about to run with true,
\* the active locale is "en" and the applied response had no "en" value for
\* "subtitle"
C2_Witness ==
    /\ \E r \in InFlight :
          r.name = "home" /\ r.cb /\ r.stage = "completing" /\ r.result = "apply"
    /\ currentLanguage = "en"
    /\ "home" \in DOMAIN cache
    /\ "subtitle" \in DOMAIN cache["home"]
    /\ translation("subtitle", "home") = ""

\* outcomes of a fetch that are failures on every implementation
HardFailures == {"networkError", "httpError", "unparseable"}

\* the cache, the data stores, their snapshot and the event bus are as before
NothingPublished ==
    /\ cache' = cache
    /\ dataStoreCache' = dataStoreCache
    /\ cacheFile' = cacheFile
    /\ buffer' = buffer
    /\ notified' = <<>>

\* C3 (as stated): a fetch that ends with a network error, any non-success
\* HTTP status or an unparseable body leaves the completion to be invoked
\* with false, the cache unchanged and no change event published.
C3_EveryFailureIsFalse ==
    [][\A r \in InFlight : Answered(r) /\ r.cb =>
          \A o \in Outcomes \ {"ok"} :
              SyncResponse(r, o, EmptyMap)
              => /\ CopiesIn(Done(r, "fail"), inflight')
                        = CopiesIn(Done(r, "fail"), inflight) + 1
                 /\ NothingPublished]_vars

\* C3 (amended): a fetch that ends with a network error, a non-success HTTP
\* status other than 404 or a non-empty body that cannot be parsed leaves
\* the completion to be invoked with false, the cache of every namespace
\* unchanged and no change event published, neither when the response
\* arrives nor when the completion runs.
C3_HardFailureIsFalse ==
    [][/\ \A r \in InFlight : Answered(r) /\ r.cb =>
             \A o \in HardFailures :
                 SyncResponse(r, o, EmptyMap)
                 => /\ CopiesIn(Done(r, "fail"), inflight')
                           = CopiesIn(Done(r, "fail"), inflight) + 1
                    /\ ~success(Done(r, "fail"))
                    /\ NothingPublished
       /\ \A r \in InFlight : Completed(r) /\ r.result = "fail" =>
             (SyncComplete(r) => NothingPublished)]_vars

\* C3 witness: "home" is cached and the completion of a later sync of it,
\* whose fetch failed, is about to run with false
C3_Witness ==
    /\ "home" \in DOMAIN cache
    /\ \E r \in InFlight :
          /\ r.name = "home" /\ r.cb
          /\ r.stage = "completing" /\ r.result = "fail"
          /\ ~success(r)

\* C10: when the server answers a translations or colors fetch with HTTP
\* 404, the completion of sync(tab) is invoked with true and translation of
\* any key of a tab without cached content is "".
C10_NotFoundCompletesTrue ==
    [][\A r \in InFlight :
          (Answered(r) /\ r.kind = "translations" /\ r.cb
                       /\ SyncResponse(r, "notFound", EmptyMap))
              => /\ \E d \in BagToSet(inflight') :
                        d.name = r.name /\ d.cb /\ d.stage = "completing" /\ success(d)
                 /\ r.name \notin DOMAIN cache
                        => \A k \in ItemKeys : translation(k, r.name)' = ""]_vars

(***************************************************************************)
(* Properties of the real-time channel (checked under SpecChannel).        *)
(***************************************************************************)
\* the syncs of namespace n that are waiting for their response
Fetching(bag, n) ==
    BagCardinality([r \in {x \in BagToSet(bag) : x.name = n /\ x.stage = "fetching"} |-> bag[r]])

\* this step started one sync for every known namespace, colors, images and
\* every known data store
PassStarted(known, stores) ==
    \A n \in known \cup {COLORS_TAB, IMAGES_TAB} \cup stores :
        Fetching(inflight', n) = Fetching(inflight, n) + 1

\* this step put requests in flight
Started == BagCardinality(inflight') > BagCardinality(inflight)

\* this step started one sync, for namespace n, and nothing else
OnlyStarted(n) ==
    /\ Fetching(inflight', n) = Fetching(inflight, n) + 1
    /\ BagCardinality(inflight') = BagCardinality(inflight) + 1

\* C4: a read of content that is not cached returns the defined empty
\* value: translation "", colorValue and imageURL null (None), getStoreItems
\* the empty list; this holds in every state, before configure,
\* authentication or any sync and for a known namespace never fetched.
C4_UncachedReadsAreEmpty ==
    /\ \A tab \in ServerTabs \cup {COLORS_TAB, IMAGES_TAB, "unknown"},
          k \in ItemKeys \cup {"missing"} :
          (\/ tab \notin DOMAIN cache
           \/ k \notin DOMAIN cache[tab]
           \/ currentLanguage \notin DOMAIN cache[tab][k])
              => translation(k, tab) = ""
    /\ \A k \in ItemKeys \cup {"missing"} :
          (COLORS_TAB \notin DOMAIN cache \/ k \notin DOMAIN cache[COLORS_TAB])
              => colorValue(k) = None
    /\ \A k \in ItemKeys \cup {"missing"} :
          (IMAGES_TAB \notin DOMAIN cache \/ k \notin DOMAIN cache[IMAGES_TAB])
              => imageURL(k) = None
    /\ \A id \in ServerStores \cup {"unknown"} :
          id \notin DOMAIN dataStoreCache => getStoreItems(id) = EmptyMap

\* C4 witness: "home" is known from the authentication response, its first
\* fetch has not come back, and the reads return the empty values
C4_Witness ==
    /\ "home" \in knownProjectTabs
    /\ "home" \notin DOMAIN cache
    /\ \E r \in InFlight : r.name = "home" /\ r.stage = "fetching"
    /\ translation("title", "home") = ""
    /\ colorValue("primary") = None
    /\ imageURL("logo") = None

\* C5: every handshake_ack marks the handshake acknowledged and starts a
\* pass over every known namespace, colors and images.
C5_AckStartsPass ==
    [][HandshakeAck
          => /\ handshakeAcknowledged'
             /\ PassStarted(knownProjectTabs, {})]_vars

\* C6: once authentication has succeeded with a secret confirmed by the
\* server, every handshake sent afterwards is sealed with the key derived
\* from that secret.
C6_HandshakeUsesConfirmedSecret ==
    confirmedSecret # None
        => \A k \in handshakeKeys : k = DeriveKey(confirmedSecret)

PassStep ==
    \/ \E result \in AuthResults : AuthSuccess(result, FullListing)
    \/ platform # "kt" /\ HandshakeAck
    \/ PushUpdate(ALL_SENTINEL, FALSE)

\* C8: a pass starts a sync for every known namespace, colors, images and
\* every known data store; a fetch of the pass that fails takes only its own
\* request away and leaves the others in flight, and a fetch that succeeds
\* is applied to the cache.
C8_PassCoversAllAndIsolatesFailures ==
    [][/\ Started /\ PassStep => PassStarted(knownProjectTabs', knownDataStoreIdentifiers')
       /\ \A r \in InFlight :
             (Answered(r) /\ SyncResponse(r, "networkError", EmptyMap))
                 => /\ CopiesIn(r, inflight') = CopiesIn(r, inflight) - 1
                    /\ \A x \in InFlight \ {r} : CopiesIn(x, inflight') >= CopiesIn(x, inflight)
                    /\ cache' = cache /\ dataStoreCache' = dataStoreCache
       /\ \A r \in InFlight : Answered(r) => \A b \in Bodies(r) :
             SyncResponse(r, "ok", b)
                 => IF r.kind = "store" THEN r.name \in DOMAIN dataStoreCache'
                    ELSE r.name \in DOMAIN cache']_vars

\* C8 witness: on kt the pass covered the tab, colors, images and the data
\* store; the fetch of "home" failed and the fetches of images and of the
\* store, answered afterwards, were applied
C8_Witness ==
    /\ platform = "kt"
    /\ "home" \in knownProjectTabs
    /\ "deals" \in knownDataStoreIdentifiers
    /\ "home" \notin DOMAIN cache
    /\ \A r \in InFlight : r.name # "home"
    /\ IMAGES_TAB \in DOMAIN cache
    /\ "deals" \in DOMAIN dataStoreCache
    /\ \E r \in InFlight : r.name = COLORS_TAB /\ r.stage = "fetching" /\ ~r.cb

\* C9: every pass publishes the "all namespaces updated" event exactly once:
\* the step that runs the pass posts it or schedules its one emission.
C9_PassPublishesAllOnce ==
    [][Started /\ PassStep
          => \/ pendingAllEmits' = pendingAllEmits + 1
             \/ notified' = <<ALL_SCREENS_UPDATED>>]_vars

(***************************************************************************)
(* Properties of configuration and cache management (SpecLifecycle).       *)
(***************************************************************************)
\* what a configure call that is ignored must leave alone
ConfigureIgnored ==
    /\ configuration' = configuration
    /\ symmetricKey' = symmetricKey
    /\ authToken' = authToken
    /\ cache' = cache
    /\ authPending' = authPending

\* C11 (as stated): once a configure call has been accepted (here: and its
\* authentication has succeeded), every later configure call leaves the
\* configuration, the key, the token and the cache unchanged and starts no
\* authentication request.
C11_AcceptedOnce ==
    [][confirmedSecret # None =>
          \A secret \in Secrets : Configure(secret) => ConfigureIgnored]_vars

\* C11 (amended): while a configuration is stored, every configure call,
\* with the same or with other credentials, leaves the configuration, the
\* key, the token and the cache unchanged and starts no authentication
\* request; configure is accepted again only after clearCache has removed
\* the stored configuration.
C11_IgnoredWhileConfigured ==
    [][configuration # Nothing =>
          \A secret \in Secrets : Configure(secret) => ConfigureIgnored]_vars

\* C11 witness: a configured and authenticated SDK with content, the state
\* an ignored configure call is made in and, being ignored, leaves behind
C11_Witness ==
    /\ configuration # Nothing
    /\ platform # "kt" => The(configuration).projectSecret = "s1"
    /\ ~authPending
    /\ authToken # None
    /\ "home" \in DOMAIN cache

\* the Known-Namespace Set: the tabs and the stores the SDK knows of
KnownNamespaces(tabs, stores) == tabs \cup stores

\* C12: after a successful authentication the Known-Namespace Set is exactly
\* the tabs and stores listed in the response.
C12_KnownSetIsListing ==
    [][\A result \in AuthResults, listing \in {EmptyListing, FullListing} :
          AuthSuccess(result, listing) =>
              KnownNamespaces(knownProjectTabs', knownDataStoreIdentifiers')
                  = KnownNamespaces(listing.tabs, listing.stores)]_vars

\* the fetches under way that were started by a call with a completion
CallerFetches(bag) ==
    BagCardinality([r \in {x \in BagToSet(bag) : x.cb /\ x.stage = "fetching"} |-> bag[r]])

\* C13: sync(namespace) or syncStore(identifier) called while no
\* authentication has completed starts no fetch and leaves the cache
\* unchanged (its completion is invoked with false).
C13_NoFetchBeforeAuthentication ==
    [][authToken = None =>
          /\ \A name \in SyncArgs(platform) :
                 Sync(name) => CallerFetches(inflight') = CallerFetches(inflight) /\ cache' = cache
          /\ \A id \in ServerStores :
                 SyncStore(id) => CallerFetches(inflight') = CallerFetches(inflight)
                                      /\ dataStoreCache' = dataStoreCache]_vars

\* request r runs while a sync of another namespace is under way
HasSibling(r) ==
    \E q \in BagToSet(inflight) : q.name # r.name /\ q.stage = "fetching"

\* C14: when the successful fetch of one of several concurrent syncs on
\* distinct namespaces is written, its namespace holds the fetched keys, no
\* other namespace changes, and the Known-Namespace Set keeps its members
\* and contains the synced namespace.
C14_ConcurrentSyncsKeepAll ==
    [][\A r \in BagToSet(inflight) :
          (r.kind = "translations" /\ r.name \in ServerTabs /\ r.stage = "fetching"
              /\ HasSibling(r)) =>
          \A body \in Bodies(r) :
              SyncResponse(r, "ok", body) =>
                  /\ r.name \in DOMAIN cache'
                  /\ \A k \in DOMAIN body : cache'[r.name][k] = body[k]
                  /\ \A n \in DOMAIN cache \ {r.name} :
                         n \in DOMAIN cache' /\ cache'[n] = cache[n]
                  /\ knownProjectTabs \subseteq knownProjectTabs'
                  /\ r.name \in knownProjectTabs']_vars

(***************************************************************************)
(* Properties of the persisted snapshots (SpecRestart).                    *)
(***************************************************************************)
\* C15: a process that finds a malformed cache snapshot at startup starts
\* with an empty cache and removes the file.
C15_MalformedSnapshotRemoved ==
    [][\A damaged \in BOOLEAN :
          (cacheFile # NoFile /\ (damaged \/ ~The(cacheFile).valid) /\ Restart(damaged))
              => cache' = EmptyMap /\ cacheFile' = NoFile]_vars

\* the namespaces a read can name
ReadTabs == ServerTabs \cup {COLORS_TAB, IMAGES_TAB}

C18_PublishAccepted ==
    [][platform # "swift" =>
          \A r \in InFlight : Answered(r) =>
              \A b \in Bodies(r) :
                  (fetchResult(platform, r.kind, "ok") = "apply" /\ SyncResponse(r, "ok", b))
                      => buffer' = Append(buffer, ChangeEvent(platform, r.name))]_vars

(***************************************************************************)
(* Properties of the listening life cycle (SpecListen).                    *)
(***************************************************************************)
\* C19: from stopListening() until the next startListening() the socket is
\* torn down and the handshake flag is false, so that no push event is
\* received and starts a sync.
C19_StoppedStaysDown ==
    listeningStopped =>
        /\ socket = "none"
        /\ ~handshakeAcknowledged
        /\ \A id \in ServerTabs : ~ENABLED PushUpdate(id, FALSE)

\* C20: isConnected() is true exactly when the socket is connected and the
\* handshake of the current connection has been acknowledged.
C20_IsConnectedMeansAcknowledged ==
    platform # "kt" =>
        (isConnected(platform, socket, handshakeAcknowledged)
            <=> (IsConnected(socket) /\ handshakeAcknowledged))

(***************************************************************************)
(* Properties of the active locale (SpecLanguage).                         *)
(***************************************************************************)
\* the value stored for (tab, key) and locale L, "" if there is none
Stored(c, tab, key, L) ==
    LET v == Lookup(c, tab, key, L) IN IF v = None THEN "" ELSE v

\* a setLanguage step leaves the cache, the stores and their files alone
SetLanguageFrame ==
    /\ cache' = cache
    /\ dataStoreCache' = dataStoreCache
    /\ cacheFile' = cacheFile

\* what C21 says of the state after setLanguage(L)
ReadsFollow(L) ==
    /\ SetLanguageFrame
    /\ \A tab \in ReadTabs, k \in ItemKeys : translation(k, tab)' = Stored(cache, tab, k, L)

\* the same, a call that is ignored leaving the reads as they were
ReadsFollowIfAccepted(L) ==
    /\ SetLanguageFrame
    /\ \A tab \in ReadTabs, k \in ItemKeys :
           translation(k, tab)' =
               IF setLanguageAccepted(platform, configuration, currentLanguage, L)
               THEN Stored(cache, tab, k, L)
               ELSE translation(k, tab)

\* C21 (as stated): in no state can setLanguage(L) end otherwise than with
\* every namespace holding the entries it held before and translation(k,
\* tab) returning the value stored for locale L.
C21_ReadsFollowRequestedLocale ==
    \A L \in Locales : ~ENABLED (SetLanguage(L) /\ ~ReadsFollow(L))

\* C21 (amended): setLanguage(L) never changes a cached entry; when the call
\* is accepted (on swift: the SDK is configured) translation(k, tab) returns
\* the value stored for L, and when it is ignored the active locale and the
\* reads stay as they were.
C21_LocaleChangeKeepsCache ==
    \A L \in Locales : ~ENABLED (SetLanguage(L) /\ ~ReadsFollowIfAccepted(L))

\* C21 witness: the locale has been changed to "fr" over a cached tab whose
\* title has one value per locale, and the read returns the "fr" value
C21_Witness ==
    /\ currentLanguage = "fr"
    /\ Lookup(cache, "home", "title", "en") = "Hello"
    /\ translation("title", "home") = "Bonjour"

(***************************************************************************)
(* Further properties of the sync engine.                                  *)
(***************************************************************************)
\* C22: when the response of a sync of the images namespace is applied,
\* imageURL(k) returns the fetched URL for the keys of the fetched list and
\* null for every other key, cached before or not.
C22_ImagesReplacedWholesale ==
    [][\A r \in InFlight : (Answered(r) /\ r.kind = "images") =>
          \A b \in ImageLists :
              SyncResponse(r, "ok", b) =>
                  \A k \in ItemKeys :
                      imageURL(k)' = IF k \in DOMAIN b THEN b[k] ELSE None]_vars

\* C23: a second sync of a namespace that receives the response the first
\* one received changes nothing: once a response is applied, applying the
\* same response to the same namespace again gives the same cache content and
\* the same known-namespace set.
C23_RepeatedSyncIsIdempotent ==
    [][\A r \in InFlight : (Answered(r) /\ r.kind # "store"
                                /\ fetchResult(platform, r.kind, "ok") = "apply") =>
          \A b \in Bodies(r) :
              SyncResponse(r, "ok", b) =>
                  /\ applyToCache(platform, cache', r, b) = cache'
                  /\ r.kind = "translations" =>
                         knownTabsAfterSync(platform, knownProjectTabs', r.name)
                             = knownProjectTabs']_vars

\* C23 witness: "home" holds the content of a response that carries both
\* keys, it is in the known set where the sync records it, and a further
\* sync of "home" waits for its response
C23_Witness ==
    /\ "home" \in DOMAIN cache
    /\ \E b \in TabBodies : DOMAIN b = {"title", "subtitle"} /\ cache["home"] = b
    /\ platform # "kt" => "home" \in knownProjectTabs
    /\ \E r \in InFlight : r.name = "home" /\ r.kind = "translations" /\ r.stage = "fetching"

\* the bridge operation behind request r
Operation(r) == IF r.kind = "store" THEN "syncStore" ELSE "sync"

\* C24: a sync or syncStore called through the bridge that fails (before
\* configure or for any other reason) settles its promise by resolving it
\* with false; the promise is never rejected.
C24_FailedSyncResolvesFalse ==
    [][\A r \in InFlight : (Completed(r) /\ r.cb /\ ~success(r)) =>
          (SyncComplete(r) =>
              \A bridge \in Bridges(platform, Operation(r)) :
                  settle(bridge, Operation(r), success(r)) = Resolved("false"))]_vars

\* another sync of the namespace of r runs at the same time: it waits for
\* its response too, or its response is written and its completion is pending
Racing(r) ==
    \/ CopiesIn(r, inflight) > 1
    \/ \E q \in InFlight :
          /\ q # r /\ q.name = r.name /\ q.kind = r.kind
          /\ q.stage = "fetching" \/ (q.stage = "completing" /\ q.result = "apply")

C26_ReadsSeeWholeWrites ==
    reader.phase = "done" => reader.value \in {reader.before, reader.after}

\* a write ends with the cache the response applied in one step gives
WriteEndAppliesResponse ==
    [][WriteEnd => LET w == CHOOSE x \in writing : TRUE
                   IN  cache' = applyToCache(platform, w.start, w.r, w.body)]_vars

\* C26 witness: a read of the title of "home" was called while a response
\* was being written over older content, waited, and returned the new value
C26_Witness ==
    /\ reader.phase = "done"
    /\ reader.waited
    /\ reader.tab = "home" /\ reader.key = "title"
    /\ reader.value = "Hi"
    /\ \E r \in InFlight : r.name = "home" /\ r.stage = "completing" /\ r.result = "apply"

\* C27: a sync that completes with true has applied the fetched content to
\* the cache, written the cache snapshot and published one change event with
\* the name of its namespace (the reserved name for colors and images) before
\* its completion runs; a sync that completes with false publishes no event.
C27_TrueMeansAppliedPersistedPublished ==
    [][/\ \A r \in InFlight : (Answered(r) /\ r.kind # "store") =>
             \A outcome \in Outcomes : \A b \in ResponseBodies(r, outcome) :
                 SyncResponse(r, outcome, b) =>
                     IF success(Done(r, fetchResult(platform, r.kind, outcome)))
                     THEN /\ outcome = "ok"
                          /\ cache' = applyToCache(platform, cache, r, b)
                          /\ cacheFile' = Some(Snapshot(cache'))
                          /\ platform # "swift" =>
                                 buffer' = Append(buffer, ChangeEvent(platform, r.name))
                     ELSE cache' = cache /\ buffer' = buffer
       /\ \A r \in InFlight : (Completed(r) /\ r.kind # "store" /\ platform = "swift") =>
             (SyncComplete(r) =>
                 notified' = IF success(r) THEN <<ChangeEvent(platform, r.name)>> ELSE <<>>)]_vars

\* C28: when the "all namespaces updated" event of a pass is published,
\* every sync the pass started has run to its end: no request of a pass is
\* still waiting for its response.
C28_AllAfterEverySync ==
    [][(AllEmit /\ buffer' = Append(buffer, ALL_SCREENS_UPDATED))
          => \A r \in InFlight : ~r.cb => r.stage # "fetching"]_vars

\* the moves of the channel state the state machine allows
ChannelMoves ==
    { <<"none", "connecting">>, <<"connecting", "awaitingAck">>,
      <<"awaitingAck", "connected">>, <<"awaitingAck", "connecting">>,
      <<"connected", "connecting">>, <<"connecting", "none">>,
      <<"awaitingAck", "none">>, <<"connected", "none">> }

AwaitingRetry == configuration # Nothing /\ authToken = None /\ ~authPending

\* C30: a failed authentication leaves the SDK without a token and starts
\* nothing by itself; the next sync or startListening the application calls
\* on the unauthenticated SDK sends the authentication request again.
C30_NextTriggerAuthenticatesAgain ==
    [][/\ (authPending /\ \E result \in AuthResults : AuthFailure(result)) =>
              /\ authToken = None => authToken' = None
              /\ ~authPending'
              /\ inflight' = inflight /\ socket' = socket /\ connectScheduled' = connectScheduled
       /\ (AwaitingRetry /\ inflight' # inflight /\ \E name \in ServerTabs : Sync(name)) =>
              authPending'
       /\ (AwaitingRetry /\ connectScheduled' # connectScheduled /\ StartListening) =>
              authPending']_vars

(***************************************************************************)
(* Properties of the handshake without a key (SpecHandshake).              *)
(***************************************************************************)
\* the socket is connected and its handshake is neither acknowledged nor pending
OpenWithoutHandshake == socket = "connected" /\ ~handshakeAcknowledged

PersistPending == \E r \in BagToSet(inflight) : r.stage = "persisting"

\* C32: whenever no sync stands between its write to memory and its write of
\* the snapshot file and no disk write has failed, the snapshot on disk loads
\* to the cache in memory, whatever the interleaving of the syncs; a write to
\* memory leaves the file alone, and every write of the file stores the memory
\* of that moment, so no snapshot replaces a newer one with older content.
C32_DiskFollowsMemory ==
    /\ []((~PersistPending /\ ~diskWriteFailed) => loadCacheFromDisk(cacheFile) = cache)
    /\ [][/\ (\E r \in BagToSet(inflight) : \E body \in Bodies(r) : SyncApply(r, body)) =>
                cacheFile' = cacheFile
          /\ (\/ \E r \in BagToSet(inflight) : PersistCacheToDisk(r, "written")
              \/ \E r \in BagToSet(inflight) : \E body \in Bodies(r) :
                      SyncSave(r, body, "written")) =>
                cacheFile' = Some(Snapshot(cache'))]_vars

\* C32 witness: two syncs have written their namespaces, nothing is in flight,
\* no write failed, and the file holds both namespaces
C32_Witness ==
    /\ inflight = EmptyBag
    /\ ~diskWriteFailed
    /\ {"home", IMAGES_TAB} \subseteq DOMAIN cache
    /\ cacheFile = Some(Snapshot(cache))
    /\ platform = "kt"

\* request r on its way to a completion invoked with true
Succeeding(r) == [r EXCEPT !.stage = "completing", !.result = "apply"]

\* C33: when the write of the snapshot file fails in a sync whose fetch
\* succeeded, memory keeps the fetched content and the sync goes on to
\* complete with true.
C33_DiskErrorSwallowed ==
    [][\A r \in BagToSet(inflight) : \A disk \in {"failed", "partial"} :
          r.cb =>
             /\ PersistCacheToDisk(r, disk) =>
                   (cache' = cache /\ BagIn(Succeeding(r), inflight'))
             /\ \A body \in Bodies(r) : SyncSave(r, body, disk) =>
                   (cache' = applyToCache(platform, cache, r, body)
                       /\ BagIn(Succeeding(r), inflight'))]_vars

\* C34: a successful sync of a translation tab that was not in the
\* Known-Namespace Set adds the tab to the set and persists the updated set,
\* so that the set a restart loads contains it.
C34_SyncedTabIsKnownAndPersisted ==
    [][\A r \in BagToSet(inflight) : \A body \in Bodies(r) :
          (/\ r.kind = "translations"
           /\ r.name \notin knownProjectTabs \cup {COLORS_TAB}
           /\ SyncResponse(r, "ok", body)) =>
             /\ r.name \in knownProjectTabs'
             /\ tabsFile' = Some(knownProjectTabs')
             /\ r.name \in loadTabsFromDisk(platform, cacheFile', tabsFile')]_vars

\* the tab list a snapshot file holds
PersistedTabs(file) == IF file = NoFile THEN {} ELSE The(file)

\* C35: after a successful authentication the persisted snapshot of the
\* Known-Namespace Set equals the set in memory, which is the list the
\* response carried.
C35_AuthPersistsKnownTabs ==
    [][\A result \in AuthResults, listing \in {EmptyListing, FullListing} :
          (authPending /\ AuthSuccess(result, listing)) =>
             /\ knownProjectTabs' = listing.tabs
             /\ PersistedTabs(tabsFile') = knownProjectTabs']_vars

\* C36: the two snapshot files are loaded independently at startup: whatever
\* the state of the cache file (missing, damaged or sound) the
\* Known-Namespace Set is the persisted tab list, and the cache is the
\* content of a sound cache file.
C36_FilesLoadIndependently ==
    [][\A damaged \in BOOLEAN : Restart(damaged) =>
          /\ knownProjectTabs' = PersistedTabs(tabsFile)
          /\ cache' = IF damaged \/ cacheFile = NoFile THEN EmptyMap
                      ELSE loadCacheFromDisk(cacheFile)]_vars

\* the events the shared flow holds for its subscribers
Buffered(buf) == {buf[i] : i \in 1..Len(buf)}

\* C37: a subscriber that is slow to take an event neither delays the
\* publisher nor keeps the other subscriber from receiving what is published
\* meanwhile: a sync that publishes while only the slow subscriber has yet
\* to take the oldest event goes on to its completion, and its event is in
\* the flow for the other subscriber.
C37_SlowSubscriberStallsNobody ==
    [][\A r \in BagToSet(inflight) : \A body \in Bodies(r) :
          (/\ platform # "swift"
           /\ buffer # <<>>
           /\ taken = {"hook"}
           /\ SyncResponse(r, "ok", body)) =>
             /\ r.cb => BagIn(Succeeding(r), inflight')
             /\ ChangeEvent(platform, r.name) \in Buffered(SubSeq(buffer', 2, Len(buffer')))]_vars

\* the fetch the contract assigns to a namespace name
ContractKind(name) == IF name = IMAGES_TAB THEN "images" ELSE "translations"

\* C38: sync(name) chooses its fetch by the name: "__images__" starts the
\* images fetch, every other name (the colors tab included) the translations
\* fetch of exactly that name; and the response of such a sync writes only
\* the namespace of its name.
C38_FetchChosenByNamespace ==
    [][/\ \A name \in DispatchArgs :
             Sync(name) =>
                \A r \in BagToSet(inflight') :
                    (r.stage = "fetching" /\ CopiesIn(r, inflight') > CopiesIn(r, inflight)) =>
                        (r.name = name /\ r.kind = ContractKind(name))
       /\ \A r \in BagToSet(inflight) : \A body \in Bodies(r) :
             (r.cb /\ SyncResponse(r, "ok", body)) =>
                \A n \in (DOMAIN cache \cup DOMAIN cache') \ {r.name} :
                    n \in DOMAIN cache /\ n \in DOMAIN cache' /\ cache'[n] = cache[n]]_vars

\* memory and the cache file hold nothing
CacheCleared == cache = EmptyMap /\ cacheFile = NoFile

\* C39: clearCache empties the cache in memory and removes the cache file,
\* and until configure is called again no step fills them, also not the
\* response of a fetch that was in flight when clearCache ran.
C39_ClearedStaysCleared ==
    [][/\ ClearCache => (CacheCleared' /\ configuration' = Nothing)
       /\ (platform = "swift" /\ CacheCleared /\ configuration = Nothing
              /\ configuration' = Nothing) => CacheCleared']_vars

\* C40: every call of sync or syncStore with a completion leaves exactly one
\* completion to run (or, on kt, runs it before returning when the call is
\* refused); the response of the exchange leaves it pending, the block on
\* the main thread runs it and takes it away, nothing else takes one away,
\* and a pending completion is eventually run.
C40_CompletionExactlyOnce ==
    /\ [][/\ ((\E name \in ServerTabs \cup {IMAGES_TAB} : Sync(name))
               \/ (\E id \in ServerStores : SyncStore(id))) =>
                \/ Callers(inflight') = Callers(inflight) + 1
                \/ platform = "kt" /\ configuration = Nothing /\ inflight' = inflight
          /\ \A r \in BagToSet(inflight) :
                (r.cb /\ \E outcome \in Outcomes : \E body \in ResponseBodies(r, outcome) :
                            SyncResponse(r, outcome, body)) =>
                    /\ Callers(inflight') = Callers(inflight)
                    /\ \E d \in BagToSet(inflight') :
                          /\ d.cb /\ d.stage = "completing" /\ d.name = r.name
                          /\ CopiesIn(d, inflight') = CopiesIn(d, inflight) + 1
          /\ \A r \in BagToSet(inflight) :
                (r.cb /\ SyncComplete(r)) =>
                    (r.stage = "completing" /\ CopiesIn(r, inflight') = CopiesIn(r, inflight) - 1)
          /\ Callers(inflight') < Callers(inflight) =>
                /\ Callers(inflight') = Callers(inflight) - 1
                /\ \E r \in BagToSet(inflight) : r.cb /\ SyncComplete(r)]_vars
    /\ (Callers(inflight) = MaxCallers) ~> (Callers(inflight) < MaxCallers)

\* C40 witness: the completion of a sync whose response could not be read
\* is about to run with false
C40_Witness ==
    \E r \in BagToSet(inflight) :
        r.cb /\ r.stage = "completing" /\ r.result = "fail" /\ ~success(r)

=============================================================================
